---- MODULE Spec2Model ----
(***************************************************************************)
(* Model of the browser agent's control loop                               *)
(* (src/src/orchestrator/orchestrator.py, Orchestrator.process_request)    *)
(* and of Plan validation (src/src/planner/models.py, Plan.validate_steps).*)
(*                                                                         *)
(* Texts (step outcomes, error messages) are sequences of words; Python's  *)
(* substring test `needle in text` is Contains(text, needle).              *)
(***************************************************************************)
EXTENDS Integers, Sequences, FiniteSets, TLC

VARIABLES
    pc,                  \* position of the worker inside process_request
    stop_requested,      \* Orchestrator._stop_requested
    plan,                \* local `plan` of process_request
    step_count,          \* local `step_count`
    results,             \* local `results`
    execution_history,   \* local `execution_history`
    final_page_content,  \* local `final_page_content`
    final_output,        \* value returned by process_request
    is_browser_started,  \* Orchestrator._is_browser_started
    update_context,      \* arguments of the latest planner.update_plan request
    memory_data,         \* LongTermMemory.data
    planner_failed,      \* whether planning ended in an exception (caught at line 677 or 723)
    planner_error,       \* whether that exception was the planner's PlannerError
    guarded_steps,       \* steps of the run before which the pre-step guards ran
    page_url,            \* page.url of the browser's tab
    new_plan,            \* local `new_plan` of the loop
    cand_ids,            \* step ids of a Plan under construction
    verdict,             \* outcome of Plan construction for cand_ids
    cand_action,         \* action of a Step under construction
    step_verdict,        \* outcome of Step construction for cand_action
    es_pc,               \* position inside VisionAgent.execute_step
    es_step,             \* its argument `step`
    es_vlm_client,       \* whether self.vlm.client is set
    es_attempt,          \* `attempt` of the visual click loop
    es_out,              \* what execute_step gave its caller
    es_tried,            \* the ways of finding the target it has tried so far
    es_events,           \* clicks, oracle queries and scrolls of a click step
    gp_pc,               \* position inside Planner._generate_plan_with_retry
    attempt,             \* its loop variable `attempt`
    last_err,            \* its local `last_err`
    last_raw,            \* its local `last_raw`
    llm_requests,        \* the `extra` of every _ask_llm request made so far
    attempt_errors,      \* the error each failed attempt ended with
    gp_result,           \* what _generate_plan_with_retry gave its caller
    worker_pc,           \* position of AgentWorker.run
    orchestrator,        \* whether AgentWorker.orchestrator is set
    init_error,          \* whether AgentWorker.init_error is set
    init_i,              \* the loop variable `i` of AgentWorker._initialize
    request_queue,       \* AgentWorker.request_queue
    result_queues,       \* the result_queue of each process_query call
    current,             \* the request the worker has taken, 0 if none
    enqueued,            \* requests in the order they were put on the queue
    served,              \* requests in the order process_request was called
    stopped_during,      \* requests in whose processing stop_current_task ran
    chat_calls,          \* how far the /chat call of each client has come
    sc_pc,               \* position of a scan of the page
    sc_nodes,            \* the candidate nodes of the page, in document order
    sc_viewport,         \* window.innerWidth and window.innerHeight
    sc_max_elements,     \* argument max_elements
    sc_image_path,       \* argument image_path
    sc_dpr,              \* window.devicePixelRatio
    snapshot,            \* what the scan returned
    sc_changed,          \* whether the DOM changed after the latest scan
    sc_prev,             \* the scan before the latest, if the DOM did not
                         \* change between the two
    sc_faulty,           \* the nodes whose getAttribute is not callable
    rp_pc,               \* position inside one replanning cycle (lines 549-681)
    rp_h,                \* `execution_history` when the cycle starts
    rp_new_plan,         \* local `new_plan` during the cycle
    rp_context_critique, \* whether full_context_str carries a critique
    rp_shots,            \* screenshots captured during the cycle
    rp_calls,            \* planner calls of the cycle, in order
    rp_result,           \* how the cycle ended
    sr_pc,               \* position inside a search step (lines 255-351)
    sr_env,              \* credentials, transport and response of the search API
    sr_api_results,      \* local `api_results`
    sr_fallback,         \* whether the manual search was entered
    sr_result,           \* local `result` of the step
    lg_pc,               \* position of process_request between its log writes
    lg_request,          \* process_request calls made so far
    lg_session,          \* local `session_id` of the call in progress
    lg_usage,            \* action type of the usage entries of the LLM endpoint
    lg_calls             \* log_action calls so far, in order

runVars == <<pc, stop_requested, plan, step_count, results, execution_history,
             final_page_content, final_output, is_browser_started,
             update_context, memory_data, planner_failed, planner_error, guarded_steps, page_url, new_plan>>

planVars == <<cand_ids, verdict, cand_action, step_verdict>>

stepVars == <<es_pc, es_step, es_vlm_client, es_attempt, es_out, es_tried,
              es_events>>

retryVars == <<gp_pc, attempt, last_err, last_raw, llm_requests, attempt_errors,
              gp_result>>

serverVars == <<worker_pc, orchestrator, init_error, init_i, request_queue,
                result_queues, current, enqueued, served, stopped_during,
                chat_calls>>

scanVars == <<sc_pc, sc_nodes, sc_viewport, sc_max_elements, sc_image_path,
              sc_dpr, snapshot, sc_changed, sc_prev, sc_faulty>>

replanVars == <<rp_pc, rp_h, rp_new_plan, rp_context_critique, rp_shots,
                rp_calls, rp_result>>

\* variables of the parts that are explored on their own further below
searchVars == <<sr_pc, sr_env, sr_api_results, sr_fallback, sr_result>>

logVars == <<lg_pc, lg_request, lg_session, lg_usage, lg_calls>>

extraVars == <<replanVars, searchVars, logVars>>

\* what the control loop leaves alone
otherVars == <<planVars, stepVars, retryVars, serverVars, scanVars, extraVars>>

vars == <<runVars, otherVars>>

\* what Plan construction, execute_step and the planner's retry loop leave alone
nonPlanVars == <<runVars, stepVars, retryVars, serverVars, scanVars, extraVars>>
nonStepVars == <<runVars, planVars, retryVars, serverVars, scanVars, extraVars>>
nonRetryVars == <<runVars, planVars, stepVars, serverVars, scanVars, extraVars>>
nonScanVars == <<runVars, planVars, stepVars, retryVars, serverVars, extraVars>>

----------------------------------------------------------------------------
(* Bounds of the exploration *)

\* records of a run that the environment may choose freely; later records
\* are the uniform record and a run that is not uniform is ended by the planner
MaxVaried == 2
\* largest step id offered to Plan construction
MaxStepId == 4
\* longest step-id list offered to Plan construction
MaxIdListLen == 3

----------------------------------------------------------------------------
(* Texts *)

Last(s) == s[Len(s)]

LastN(s, n) == IF Len(s) <= n THEN s ELSE SubSeq(s, Len(s) - n + 1, Len(s))

Contains(text, needle) ==
    \E i \in 1..(Len(text) - Len(needle) + 1) :
        SubSeq(text, i, i + Len(needle) - 1) = needle

FailedWord == <<"Failed">>
NoTargetFound == <<"No", "target", "found">>
OnSearchResultsPage == <<"You", "are", "now", "on", "the", "search", "results", "page">>
BrowserClosedText == <<"Target", "page,", "context", "or", "browser", "has", "been", "closed">>
TimeoutText == <<"Timeout", "30000ms", "exceeded">>
StoppedByUser == <<"Execution", "stopped", "by", "user.">>
TaskCompletedSuccessfully == <<"Task", "Completed", "Successfully">>
CouldNotExtract == <<"Could", "not", "extract", "content.">>

DriverErrors == {TimeoutText, BrowserClosedText}
\* LookupError of ET.fromstring (search.py line 73) for XML that declares an
\* encoding Python does not know
UnknownEncoding == <<"unknown", "encoding:", "foo">>
PageTexts == {<<"Hello">>}

D1 == "read the heading"
D2 == "open the menu"
CompleteDescription == "Task completed successfully"
Descriptions == {D1, D2}
Queries == {D1}

----------------------------------------------------------------------------
(* Plan validation: src/src/planner/models.py *)

\* the Action literal of models.py
StepActions == {"navigate", "click", "type", "scroll", "extract", "hover",
                "inspect", "wait", "finish", "search", "solve_captcha"}

\* the actions the system prompt tells the planner to choose from
\* (planner.py line 26)
PromptActions == StepActions \cup {"ask_user", "call_tool", "send_keys"}

\* the actions the control loop has a branch for (orchestrator.py lines 215,
\* 238, 269) or hands to execute_step, which has a branch for them
LoopActions == {"ask_user", "extract", "search", "navigate", "click", "type",
                "scroll", "hover", "inspect", "wait", "finish"}

Ids(steps) == [i \in DOMAIN steps |-> steps[i].step_id]

Sorted(ids) == SortSeq(ids, LAMBDA a, b : a < b)

\* validate_steps without the comparison against the expected range
validate_steps_no_gap_check(ids) ==
    IF Cardinality({ids[i] : i \in DOMAIN ids}) # Len(ids) THEN "duplicate"
    ELSE "ok"

\* Plan.validate_steps on the list of step ids: "ok", or the error raised
validate_steps(ids) ==
    IF Cardinality({ids[i] : i \in DOMAIN ids}) # Len(ids) THEN "duplicate"
    ELSE IF ids = <<>> THEN "ok"
    ELSE LET sorted_ids == Sorted(ids)
             start == sorted_ids[1]
             expected == [i \in 1..Len(ids) |-> start + i - 1]
         IN IF sorted_ids # expected THEN "gap" ELSE "ok"

\* Step field validation (action literal, step_id >= 1) and Plan validation
PlanAccepted(p) ==
    /\ \A i \in DOMAIN p.steps :
          p.steps[i].action \in StepActions /\ p.steps[i].step_id >= 1
    /\ validate_steps(Ids(p.steps)) = "ok"

----------------------------------------------------------------------------
(* Plans the planner may return *)

Step(id, a, d) == [step_id |-> id, action |-> a, description |-> d]
MkPlan(steps, nv) == [steps |-> steps, needs_vision |-> nv]
NoPlan == MkPlan(<<>>, FALSE)

FinishStep(id) == Step(id, "finish", "Finish the task")

CandidatePlans ==
    {MkPlan(<<>>, FALSE), MkPlan(<<FinishStep(1)>>, FALSE),
     MkPlan(<<Step(1, "click", CompleteDescription)>>, FALSE),
     MkPlan(<<Step(1, "ask_user", D1)>>, FALSE),
     MkPlan(<<FinishStep(1), Step(2, "extract", D1)>>, FALSE),
     MkPlan(<<Step(1, "extract", CompleteDescription)>>, FALSE),
     MkPlan(<<Step(1, "extract", D1)>>, TRUE)}
    \cup {MkPlan(<<Step(1, "search", q)>>, FALSE) : q \in Queries}
    \cup {MkPlan(<<Step(1, "extract", d)>>, FALSE) : d \in Descriptions}
    \cup {MkPlan(<<Step(1, "extract", d), FinishStep(2)>>, FALSE) : d \in Descriptions}

\* _generate_plan_with_retry returns only what Plan.model_validate accepted
ValidPlans == {p \in CandidatePlans : PlanAccepted(p)}

\* a run whose every step so far produced the same record
IsUniform(h) == \A i \in DOMAIN h : h[i] = h[1]

\* the plan that issues the step of a uniform run once more
RepeatPlan(h) == MkPlan(<<Step(1, h[1].action, h[1].description)>>, FALSE)

\* str.lower() of one character
LowerChar(c) ==
    CASE c = "A" -> "a" [] c = "B" -> "b" [] c = "C" -> "c" [] c = "D" -> "d"
      [] c = "E" -> "e" [] c = "F" -> "f" [] c = "G" -> "g" [] c = "H" -> "h"
      [] c = "I" -> "i" [] c = "J" -> "j" [] c = "K" -> "k" [] c = "L" -> "l"
      [] c = "M" -> "m" [] c = "N" -> "n" [] c = "O" -> "o" [] c = "P" -> "p"
      [] c = "Q" -> "q" [] c = "R" -> "r" [] c = "S" -> "s" [] c = "T" -> "t"
      [] c = "U" -> "u" [] c = "V" -> "v" [] c = "W" -> "w" [] c = "X" -> "x"
      [] c = "Y" -> "y" [] c = "Z" -> "z" [] OTHER -> c

CharAt(str, i) == SubSeq(str, i, i)

\* F at the value of x, the value being computed once
Let(x, F(_)) == CHOOSE r \in {F(v) : v \in {x}} : TRUE

\* `needle in str.lower()` for a lower-case needle
InLower(needle, str) ==
    \E i \in 1..(Len(str) - Len(needle) + 1) :
        \A k \in 1..Len(needle) :
            LowerChar(CharAt(str, i + k - 1)) = CharAt(needle, k)

\* str.find(needle, i - 1) + 1: where needle first starts at or after
\* position i, 0 when nowhere
RECURSIVE Find(_, _, _)
Find(str, needle, i) ==
    IF i + Len(needle) - 1 > Len(str) THEN 0
    ELSE IF SubSeq(str, i, i + Len(needle) - 1) = needle THEN i
    ELSE Find(str, needle, i + 1)

\* the characters of str from position i up to the first one of `stops`
RECURSIVE TakeUntil(_, _, _)
TakeUntil(str, i, stops) ==
    IF i > Len(str) \/ CharAt(str, i) \in stops THEN ""
    ELSE CharAt(str, i) \o TakeUntil(str, i + 1, stops)

\* orchestrator.py line 652
MentionsComplete(d) == InLower("complete", d)

\* a plan that ends the run: empty (line 643), a single extract step that
\* mentions completion (lines 649-653), or headed by finish (line 175)
IsTerminal(p) ==
    \/ p.steps = <<>>
    \/ p.steps[1].action = "finish"
    \/ /\ Len(p.steps) = 1
       /\ p.steps[1].action = "extract"
       /\ MentionsComplete(p.steps[1].description)

\* plans the planner is explored with, given the records of the run so far
PlannerPlans(h) ==
    IF Len(h) < MaxVaried THEN ValidPlans
    ELSE IF IsUniform(h)
         THEN {p \in ValidPlans : IsTerminal(p) \/ p = RepeatPlan(h)}
         ELSE {p \in ValidPlans : IsTerminal(p)}

\* planner.create_plan (planner.py lines 578-598) returns what
\* _generate_plan_with_retry returns: any plan that Plan.model_validate
\* accepted
InitialPlans == ValidPlans

----------------------------------------------------------------------------
(* Executing one step: orchestrator.py lines 215-359 *)

Raise(e) == [raised |-> TRUE, text |-> e]
Outcome(t) == [raised |-> FALSE, text |-> t]

\* parameters of VisionAgent.execute_step (vlm.py line 352-354)
execute_step_params == {"step", "page", "check_stop_callback"}
\* arguments the loop passes to it (orchestrator.py lines 353-359)
execute_step_args == {"step", "page", "check_stop_callback",
                      "stream_callback", "session_id"}

\* a Python call binds only if every argument names a parameter
CallBinds(args, params) == args \subseteq params

TypeErrorText == <<"execute_step()", "got", "an", "unexpected", "keyword",
                   "argument", "'stream_callback'">>

\* words of a description that the regular expressions of execute_step pick
\* out: an element reference, a quoted target, a URL
ElementRef == "[E1]"
QuotedTarget == "'Login'"
UrlWord == "https://example.com"

\* the descriptions explored; the one with an element reference and a quoted
\* target has the form the planner's prompt prescribes (planner.py line 30)
EsDescriptions == {<<"open", "the", "menu">>, <<"press", ElementRef>>,
                   <<"press", QuotedTarget>>,
                   <<"press", ElementRef, QuotedTarget>>,
                   <<"go", "to", UrlWord>>,
                   <<"go", "to", "http://localhost">>, <<"open">>,
                   <<"open", "Wikipedia">>}

EsActions == {"navigate", "type", "click", "hover", "inspect", "wait",
              "scroll", "extract", "finish"}

\* the elements of the page a click can land on; the first is the one that
\* carries data-pw-bbox-id E1
IdNode == 1
ClickNodes == {1, 2}

\* one click, oracle query or scroll: what was done, on the target found
\* in which way, and how it ended; `node` is the element clicked, 0 for a
\* query or a scroll
Ev(kind, via, res) == [kind |-> kind, via |-> via, res |-> res, node |-> 0]

\* the events evs, their clicks made on element n
On(evs, n) ==
    [i \in DOMAIN evs |->
        IF evs[i].kind \in {"native", "forced", "js"}
        THEN [evs[i] EXCEPT !.node = n] ELSE evs[i]]

ClickRes(ok) == IF ok THEN "ok" ELSE "raised"

HasWord(d, w) == \E i \in DOMAIN d : d[i] = w

\* re.search(r"\[(E\d+)\]", step.description), line 380
id_match(d) == HasWord(d, ElementRef)
\* re.search(r"['\"](.*?)['\"]", step.description), lines 528, 625, 905
target_text(d) == IF HasWord(d, QuotedTarget) THEN <<"Login">> ELSE <<>>
StartsAt(str, i, pre) ==
    i + Len(pre) - 1 <= Len(str) /\ SubSeq(str, i, i + Len(pre) - 1) = pre

\* the positions of a word at which (https?://|www\.)\S+ matches
UrlStarts(w) ==
    {i \in 1..Len(w) : \E pre \in {"http://", "https://", "www."} :
        StartsAt(w, i, pre) /\ i + Len(pre) <= Len(w)}

\* re.search(r"(https?://|www\.)\S+", step.description), line 462
url_match(d) == \E i \in DOMAIN d : UrlStarts(d[i]) # {}

\* url.rstrip(").,;]\"'"), line 466
RECURSIVE RStripUrlTo(_, _)
RStripUrlTo(url, n) ==
    IF n > 0 /\ CharAt(url, n) \in {")", ".", ",", ";", "]", "\"", "'"}
    THEN RStripUrlTo(url, n - 1)
    ELSE SubSeq(url, 1, n)

RStripUrl(url) == Let(url, LAMBDA u : RStripUrlTo(u, Len(u)))

\* lines 463-469: the leftmost match, stripped, https:// put before www.
NavigateUrl(d) ==
    LET k == CHOOSE i \in DOMAIN d :
                 UrlStarts(d[i]) # {} /\ \A j \in 1..(i - 1) : UrlStarts(d[j]) = {}
        start == CHOOSE i \in UrlStarts(d[k]) : \A j \in UrlStarts(d[k]) : i <= j
        url == RStripUrl(SubSeq(d[k], start, Len(d[k])))
    IN IF StartsAt(url, 1, "www.") THEN "https://" \o url ELSE url

\* " ".join of the words
RECURSIVE JoinFrom(_, _)
JoinFrom(d, i) ==
    IF i > Len(d) THEN ""
    ELSE IF i = Len(d) THEN d[i]
    ELSE d[i] \o " " \o JoinFrom(d, i + 1)

Join(d) == Let(d, LAMBDA w : JoinFrom(w, 1))

\* str.strip() for blanks
RECURSIVE StripBetween(_, _, _)
StripBetween(str, a, b) ==
    IF a > b THEN ""
    ELSE IF CharAt(str, a) = " " THEN StripBetween(str, a + 1, b)
    ELSE IF CharAt(str, b) = " " THEN StripBetween(str, a, b - 1)
    ELSE SubSeq(str, a, b)

Strip(str) == Let(str, LAMBDA s : StripBetween(s, 1, Len(s)))

\* whether the lower-case `pre` starts at position i of str.lower()
StartsAtLower(str, i, pre) ==
    /\ i + Len(pre) - 1 <= Len(str)
    /\ \A k \in 1..Len(pre) : LowerChar(CharAt(str, i + k - 1)) = CharAt(pre, k)

\* re.sub(f"(?i){prefix}", "", query)
RECURSIVE RemoveAllFrom(_, _, _)
RemoveAllFrom(str, pre, i) ==
    IF i > Len(str) THEN ""
    ELSE IF StartsAtLower(str, i, pre)
         THEN RemoveAllFrom(str, pre, i + Len(pre))
         ELSE CharAt(str, i) \o RemoveAllFrom(str, pre, i + 1)

RemoveAll(str, pre) == Let(str, LAMBDA s : RemoveAllFrom(s, pre, 1))

\* the prefixes of lines 507-514 in Latin script, in the order of the list
NavigatePrefixes == <<"go to", "navigate to", "open">>

\* lines 505-517: the description without the prefixes
RECURSIVE CleanQuery(_, _)
CleanQuery(query, i) ==
    IF i > Len(NavigatePrefixes) THEN query
    ELSE Let(IF InLower(NavigatePrefixes[i], query)
             THEN Strip(RemoveAll(query, NavigatePrefixes[i]))
             ELSE query,
             LAMBDA q : CleanQuery(q, i + 1))
\* lines 527-532
text_to_type(d) == IF target_text(d) # <<>> THEN target_text(d) ELSE <<"Python">>

\* the pre-step guards of lines 363-376
GuardCalls == {"check_captcha", "solve_captcha", "handle_popups", "force_same_tab"}

\* guards whose driver calls all sit inside try/except: lines 90-106,
\* 125-164, 257-293, 341-350
ProtectedGuards == GuardCalls

\* the guards with the driver faulting inside the guards of `failed`
pre_step_guards(failed) ==
    IF failed \subseteq ProtectedGuards THEN Outcome(<<>>)
    ELSE Raise(TimeoutText)

\* the block did not return: execution goes on below it
Fallthrough == [raised |-> FALSE, text |-> <<"(fallthrough)">>]
\* the visual oracle is to be asked
ToVlm == [raised |-> FALSE, text |-> <<"(vlm)">>]

\* lines 386-456: the interaction by element id; `fault` is an exception that
\* reaches the handler of line 455
id_based(step, visible, fault) ==
    IF fault \/ ~visible THEN Fallthrough
    ELSE CASE step.action = "click" ->
                Outcome(<<"Clicked", "element", "E1", "(ID-based)">>)
           [] step.action = "type" ->
                Outcome(<<"Typed">> \o text_to_type(step.description)
                        \o <<"into", "element", "E1", "(ID-based)">>)
           [] step.action = "hover" ->
                Outcome(<<"Hovered", "over", "element", "E1", "(ID-based)">>)
           [] OTHER -> Fallthrough

\* found_sel of lines 551 and 595: the last selector of the list of line
\* 536, the element the visual oracle named, or nothing found
InputSelector == <<"input">>
VlmId == <<"VLM", "ID", "1">>
NotFound == <<>>

\* lines 599-621: typing into the input that was found, else blindly
TypeFinish(d, found_sel) ==
    (IF found_sel # NotFound
     THEN {Outcome(<<"Typed">> \o text_to_type(d) \o <<"into">> \o found_sel)}
     ELSE {})
    \cup {Outcome(<<"Typed">> \o text_to_type(d) \o <<"blindly">>)}
    \cup {Outcome(<<"Error", "typing:">> \o e) : e \in DriverErrors}

\* lines 1052-1070
TextExtraction ==
    {Outcome(<<"Extracted", "Text", "(snippet):">> \o t) : t \in PageTexts}
    \cup {Outcome(<<"Error", "extracting:">> \o e) : e \in DriverErrors}

\* the text of line 521
NavigatedToSearch(query) ==
    <<"Navigated", "to", "Google", "Search", "for", "'" \o query \o "'", ".">>
    \o OnSearchResultsPage
    \o <<".", "DO", "NOT", "navigate", "again.", "CLICK", "on", "a",
          "relevant", "result", "link.">>

\* lines 459-524
NavigateBody(d) ==
    IF url_match(d)
    THEN IF ~InLower(".", NavigateUrl(d))
         THEN {Outcome(<<"Failed", "to", "navigate:", "Invalid", "URL",
                         "'" \o NavigateUrl(d) \o "'">>)}
         ELSE {Outcome(<<"Navigated", "to", NavigateUrl(d)>>)}
              \cup {Outcome(<<"Failed", "to", "navigate", "to", NavigateUrl(d), ":">>
                            \o e) : e \in DriverErrors}
    ELSE IF InLower("wikipedia", Join(d))
    THEN {Outcome(<<"Navigated", "to", "https://ru.wikipedia.org", "(heuristic)">>)}
         \cup {Raise(e) : e \in DriverErrors}
    ELSE IF InLower("habr", Join(d))
    THEN {Outcome(<<"Navigated", "to", "https://habr.com/ru/all/", "(heuristic)">>)}
         \cup {Raise(e) : e \in DriverErrors}
    ELSE IF CleanQuery(Join(d), 1) # ""
    THEN {Outcome(NavigatedToSearch(CleanQuery(Join(d), 1)))}
         \cup {Raise(e) : e \in DriverErrors}
    ELSE {Outcome(<<"Failed", "to", "navigate:", "No", "URL", "found">>)}

\* lines 623-816 and 900: the click by target text
ClickBody(d, vlm_client) ==
    IF target_text(d) # <<>>
    THEN {Outcome(<<"Clicked">> \o target_text(d)),
          Outcome(<<"Force", "clicked">> \o target_text(d)),
          Outcome(<<"Failed", "to", "click:", "Element">> \o target_text(d)
                  \o <<"not", "found", "or", "not", "visible">>)}
         \cup {Outcome(<<"Error", "force", "clicking">> \o target_text(d) \o e) :
                  e \in DriverErrors}
         \cup {Outcome(<<"Error", "clicking">> \o target_text(d) \o e) :
                  e \in DriverErrors}
         \cup {Outcome(<<"Error", "finding/clicking">> \o target_text(d) \o e) :
                  e \in DriverErrors}
    ELSE IF vlm_client THEN {ToVlm}
         ELSE {Outcome(<<"Failed", "to", "click:">> \o NoTargetFound)}

\* lines 902-951
HoverBody(d, vlm_client) ==
    (IF target_text(d) # <<>>
     THEN {Outcome(<<"Hovered", "over">> \o target_text(d))} ELSE {})
    \cup (IF vlm_client THEN {ToVlm} ELSE {Outcome(<<"Failed", "to", "hover">>)})

\* lines 953-985
InspectBody ==
    {Outcome(<<"Inspect", "Result:", "Text:", "Hello">>),
     Outcome(<<"Inspect", "failed:", "Element", "not", "found.">>)}
    \cup {Outcome(<<"Inspect", "error:">> \o e) : e \in DriverErrors}

\* the body of the try of lines 458-1070 up to the first query of the visual
\* oracle
MainBody(step, vlm_client) ==
    CASE step.action = "navigate" -> NavigateBody(step.description)
      [] step.action = "type" ->
            TypeFinish(step.description, InputSelector)
            \cup (IF vlm_client THEN {ToVlm}
                  ELSE TypeFinish(step.description, NotFound))
      [] step.action = "click" -> ClickBody(step.description, vlm_client)
      [] step.action = "hover" -> HoverBody(step.description, vlm_client)
      [] step.action = "inspect" -> InspectBody
      [] step.action = "wait" -> {Outcome(<<"Waited", "5", "seconds.">>)}
      [] step.action = "scroll" ->
            {Outcome(<<"Scrolled", "down">>)} \cup {Raise(e) : e \in DriverErrors}
      [] step.action = "extract" ->
            IF vlm_client THEN {ToVlm} ELSE TextExtraction
      [] OTHER -> {Fallthrough}

\* execute_step without the handler of lines 1072-1073
CatchNothing(o) == o
\* lines 1072-1075: an exception of the body becomes an outcome text; a body
\* that returned nothing ends at the last line
Catch(o) ==
    IF o.raised THEN Outcome(<<"Error", "executing", "step:">> \o o.text)
    ELSE o

NoSpecificLogic(step) == Outcome(<<"Executed", step.action, "(no", "specific", "logic)">>)

\* the visual click loop runs `for attempt in range(2)`, line 823
VlmClickAttempts == 2

\* what one pass of the visual click loop can do (lines 826-896): a click,
\* or no result (target not found, reply without id, element missing, fault)
VlmClickPass ==
    {Outcome(<<"Clicked", "element", "#1", "using", "VLM", "SoM">>),
     Outcome(<<"Clicked", "element", "#1", "using", "JS", "fallback">>),
     Fallthrough}

\* lines 826-896: what one pass does to end as o: the query of line 838
\* and its answer, the scroll of line 850, el_handle.click of line 880, the
\* JS click of line 887. The handler of line 883 makes the JS click when
\* el_handle.click raised and also when evaluate_handle or as_element
\* raised, no native click made. A pass yields no result when it faults
\* before the query, when the request of the query faulted (its answer is
\* then the error text of agent.py line 164), when the answer is
\* :not_found: (the page is scrolled, and the scroll can raise) or has no
\* id, when the element is not in the map, or when the JS click raises.
VlmPassEvents(o) ==
    IF o = Outcome(<<"Clicked", "element", "#1", "using", "VLM", "SoM">>)
    THEN {<<Ev("query", "vlm", "id"), Ev("native", "vlm", "ok")>>}
    ELSE IF o = Outcome(<<"Clicked", "element", "#1", "using", "JS", "fallback">>)
    THEN {<<Ev("query", "vlm", "id"), Ev("native", "vlm", "raised"),
            Ev("js", "vlm", "ok")>>,
          <<Ev("query", "vlm", "id"), Ev("js", "vlm", "ok")>>}
    ELSE {<<>>,
          <<Ev("query", "vlm", "raised")>>,
          <<Ev("query", "vlm", "not_found"), Ev("scroll", "vlm", "ok")>>,
          <<Ev("query", "vlm", "not_found"), Ev("scroll", "vlm", "raised")>>,
          <<Ev("query", "vlm", "no_id")>>,
          <<Ev("query", "vlm", "id")>>,
          <<Ev("query", "vlm", "id"), Ev("native", "vlm", "raised"),
            Ev("js", "vlm", "raised")>>,
          <<Ev("query", "vlm", "id"), Ev("js", "vlm", "raised")>>}

\* a loop with one pass more
MorePassesOneMore(n) == n < VlmClickAttempts + 1

\* line 823: whether a pass follows after n passes
MorePasses(n) == n < VlmClickAttempts

\* lines 922-951
VlmHoverPass ==
    {Outcome(<<"Hovered", "over", "element", "#1", "using", "VLM", "SoM">>),
     Outcome(<<"Failed", "to", "hover">>)}

\* VLMAgent._call_vlm, agent.py lines 74-164: the answer of the oracle, or
\* this text when the request faulted three times
VlmCallFailed == <<"Error", "calling", "VLM:", "Max", "retries", "exceeded">>

\* lines 1040-1070: what extract_data returned, an answer or the text of
\* its fault, is returned (line 1047); the text extraction follows only
\* when page.screenshot raised
VlmExtractPass ==
    {Outcome(<<"VLM", "Extracted", "Data:", "Hello">>),
     Outcome(<<"VLM", "Extracted", "Data:">> \o VlmCallFailed)}
    \cup TextExtraction

\* whether the code polls check_stop_callback before it asks the visual
\* oracle: lines 575, 824, 923; the extraction of line 1044 has no poll
PollsBeforeVlm(action) == action \in {"type", "click", "hover"}

\* str.split(" ") from position i: the words between the blanks, the empty
\* word between two adjacent blanks included, so that Join gives str back
RECURSIVE WordsFrom(_, _)
WordsFrom(str, i) ==
    Let(TakeUntil(str, i, {" "}),
        LAMBDA word : IF i + Len(word) > Len(str) THEN <<word>>
                      ELSE <<word>> \o WordsFrom(str, i + Len(word) + 1))

Words(str) == Let(str, LAMBDA s : WordsFrom(s, 1))

\* the queries of the visual oracle that follow the body (lines 548-596,
\* 818-900, 922-951, 1040-1070)
VlmOutcomes(step) ==
    CASE step.action = "click" ->
            (VlmClickPass \ {Fallthrough})
            \cup {Outcome(<<"Failed", "to", "click:", "VLM", "could", "not",
                            "find", "target", "after", "scrolling">>)}
      [] step.action = "type" -> TypeFinish(step.description, VlmId)
      [] step.action = "hover" -> VlmHoverPass
      [] OTHER -> VlmExtractPass

\* whether the step can come to a poll of check_stop_callback after the one
\* at its entry
StopPolled(step, vlm_client) ==
    PollsBeforeVlm(step.action) /\ ToVlm \in MainBody(step, vlm_client)

\* what execute_step can return for a step it was entered for with the stop
\* flag unset and left unset: lines 363-1075
ExecuteStepOutcomes(step, vlm_client) ==
    LET by_id == IF id_match(step.description)
                 THEN {id_based(step, visible, fault) :
                          visible \in BOOLEAN, fault \in BOOLEAN}
                 ELSE {}
        main == {Catch(b) : b \in MainBody(step, vlm_client)}
    IN (by_id \ {Fallthrough})
       \cup (main \ {ToVlm, Fallthrough})
       \cup (IF Fallthrough \in main THEN {NoSpecificLogic(step)} ELSE {})
       \cup (IF ToVlm \in main THEN VlmOutcomes(step) ELSE {})

\* outcomes of the Action Resolver, were the call to bind; `stop` is the
\* flag at the entry (lines 358-359). Orchestrator.stop, called from another
\* thread while the step runs, sets the flag for the polls of lines 575, 824
\* and 923
ResolverOutcomes(step, stop) ==
    IF stop THEN {StoppedByUser}
    ELSE LET st == [step EXCEPT !.description = Words(step.description)]
         IN {o.text : o \in UNION {ExecuteStepOutcomes(st, vlm_client) :
                                     vlm_client \in BOOLEAN}}
            \cup (IF \E vlm_client \in BOOLEAN : StopPolled(st, vlm_client)
                  THEN {StoppedByUser} ELSE {})

\* lines 238-252
ExtractOutcomes ==
    {Outcome(<<"Extracted", "Text:">> \o t) : t \in PageTexts}
    \cup {Outcome(<<"Failed", "to", "extract", "text:">> \o e) : e \in DriverErrors}

Quoted(d) == "'" \o d \o "'"

\* line 279
ApiNote ==
    <<"The", "browser", "did", "NOT", "navigate", "to", "these", "results.",
      "Use", "the", "URLs", "above", "to", "'navigate'", "to", "the", "most",
      "relevant", "page,", "or", "'finish'", "if", "the", "answer", "is", "in",
      "the", "snippets.">>

\* lines 267-282 for an answer without hits
ApiSummaryEmpty(d) ==
    <<"Search", "Results", "for", Quoted(d), "(via", "API):\n\nNOTE:">> \o ApiNote

\* line 334
TypedIntoSearch(d) ==
    <<"Typed", Quoted(d), "into", "search", "and", "navigated", "to", "results.">>

\* line 347
NavigatedFallback(d) ==
    <<"Navigated", "to", "search", "results", "for", Quoted(d), "(Fallback)">>

\* lines 255-351: the summary of the API answer; on None the manual search,
\* then the direct URL, then "Search failed completely"; yandex_search lets
\* the LookupError of an unknown XML encoding through (search.py lines 73,
\* 116), which leaves the loop for the handler of line 723
SearchOutcomes(d) ==
    {Outcome(ApiSummaryEmpty(d)), Outcome(TypedIntoSearch(d)),
     Outcome(NavigatedFallback(d))}
    \cup {Outcome(<<"Search", "failed", "completely:">> \o e) : e \in DriverErrors}
    \cup {Raise(UnknownEncoding)}

\* lines 215-233: the answer of the callback or the fault of the callback;
\* without a callback the answer typed on the console, or its end of file
AskUserOutcomes ==
    {Outcome(<<"User", "answered:", "yes">>),
     Outcome(<<"User", "answered:", "Error:", "Could", "not", "get", "user", "input.">>),
     Outcome(<<"User", "answered:", "No", "answer", "provided.">>)}

\* what executing `step` can yield: an outcome text, or an exception
StepOutcomes(step, stop) ==
    CASE step.action = "ask_user" -> AskUserOutcomes
      [] step.action = "extract"  -> ExtractOutcomes
      [] step.action = "search"   -> SearchOutcomes(step.description)
      [] OTHER ->
            IF CallBinds(execute_step_args, execute_step_params)
            THEN {Outcome(t) : t \in ResolverOutcomes(step, stop)}
            ELSE {Raise(TypeErrorText)}

\* outcomes the run is explored with, given the records so far
OutcomeChoices(step, stop, h) ==
    IF Len(h) < MaxVaried THEN StepOutcomes(step, stop)
    ELSE {o \in StepOutcomes(step, stop) : ~o.raised /\ o.text = h[Len(h)].result}

ResultLine(step, result) == <<"Step", step.step_id, ":">> \o result

\* the tab of a browser that start_browser launched (no cdp_url, as the
\* Orchestrator is constructed by default)
AboutBlank == "about:blank"
NoPage == "none"

\* urllib.parse.quote for the characters of the descriptions
RECURSIVE QuoteFrom(_, _)
QuoteFrom(str, i) ==
    IF i > Len(str) THEN ""
    ELSE (CASE CharAt(str, i) = " " -> "%20"
            [] CharAt(str, i) = "'" -> "%27"
            [] OTHER -> CharAt(str, i))
         \o QuoteFrom(str, i + 1)

Quote(str) == Let(str, LAMBDA s : QuoteFrom(s, 1))

SearchHomepage == "https://ya.ru"

\* what page.url can be after the step: the page.goto calls of lines 300
\* and 346 and of vlm.py lines 476, 487, 497, 520 that the outcome text
\* tells of. A search that failed completely has left the page where it
\* was when the goto of line 300 raised, and on the homepage when a later
\* call of the manual search raised
UrlsAfter(step, result, url) ==
    CASE step.action = "search" /\ result = TypedIntoSearch(step.description) ->
            {SearchHomepage}
      [] step.action = "search" /\ result = NavigatedFallback(step.description) ->
            {SearchHomepage \o "/search/?text=" \o Quote(step.description)}
      [] step.action = "search"
            /\ Contains(result, <<"Search", "failed", "completely:">>) ->
            {url, SearchHomepage}
      [] step.action = "navigate" /\ result[1] = "Navigated" ->
            {IF result[3] = "Google"
             THEN "https://www.google.com/search?q="
                  \o CleanQuery(step.description, 1)
             ELSE result[3]}
      [] OTHER -> {url}

\* lines 372-379
Record(step, result, url) ==
    [description |-> step.description, action |-> step.action,
     result |-> result, url |-> url]

----------------------------------------------------------------------------
(* Replanning context: orchestrator.py lines 464-547 *)

NoWarning == ""
CriticalWarning == "CRITICAL: You are repeatedly failing with the same action. You MUST change strategy. Do NOT try the same action again."
RepeatWarning == "WARNING: It seems you are repeating the same action with the same result. You MUST try a different approach."

\* cycle detection that starts only with a third record
CycleWarningFromThree(h) ==
    IF Len(h) > 2
    THEN LET last_entry == h[Len(h)]
             window == LastN(h, 3)
             fail_count == Cardinality(
                 {i \in DOMAIN window :
                     /\ Contains(window[i].result, <<"Failed">>)
                     /\ window[i].description = last_entry.description})
             before == LastN(SubSeq(h, 1, Len(h) - 1), 3)
         IN IF Contains(last_entry.result, <<"Failed">>) /\ fail_count >= 2
            THEN CriticalWarning
            ELSE IF \E i \in DOMAIN before :
                       /\ before[i].description = last_entry.description
                       /\ before[i].result = last_entry.result
                 THEN RepeatWarning
                 ELSE NoWarning
    ELSE NoWarning

\* lines 490-529
CycleWarning(h) ==
    IF Len(h) > 1
    THEN LET last_entry == h[Len(h)]
             window == LastN(h, 3)
             fail_count == Cardinality(
                 {i \in DOMAIN window :
                     /\ Contains(window[i].result, FailedWord)
                     /\ window[i].description = last_entry.description})
             before == LastN(SubSeq(h, 1, Len(h) - 1), 3)
         IN IF Contains(last_entry.result, FailedWord) /\ fail_count >= 2
            THEN CriticalWarning
            ELSE IF \E i \in DOMAIN before :
                       /\ before[i].description = last_entry.description
                       /\ before[i].result = last_entry.result
                 THEN RepeatWarning
                 ELSE NoWarning
    ELSE NoWarning

\* lines 538-547: directives appended to the result sent to the planner
AugmentResult(result) ==
    LET r1 == IF Contains(result, NoTargetFound)
              THEN result \o <<"(CRITICAL", "FAILURE:", "The", "target", "element",
                               "was", "NOT", "found.)">>
              ELSE result
    IN IF Contains(r1, OnSearchResultsPage)
       THEN r1 \o <<"(CRITICAL", "INSTRUCTION:", "Your", "next", "action",
                    "MUST", "be", "'click'.)">>
       ELSE r1

KEEP_FULL_CONTEXT_STEPS == 5
HistoryCut == 150

\* len(" ".join(words[i:]))
RECURSIVE TextLen(_, _)
TextLen(d, i) ==
    IF i > Len(d) THEN 0
    ELSE IF i = Len(d) THEN Len(d[i])
    ELSE Len(d[i]) + 1 + TextLen(d, i + 1)

\* the words of (" ".join(words[i:]))[:n] + "... (history truncated)"
RECURSIVE CutWords(_, _, _)
CutWords(d, i, n) ==
    IF n = 0 THEN <<"...", "(history", "truncated)">>
    ELSE IF Len(d[i]) >= n
         THEN <<SubSeq(d[i], 1, n) \o "...", "(history", "truncated)">>
         ELSE <<d[i]>> \o CutWords(d, i + 1, n - Len(d[i]) - 1)

\* lines 477-482: result_text[:150] + "... (history truncated)" for a
\* result_text of more than 150 characters
TruncateResult(result) ==
    IF TextLen(result, 1) > HistoryCut
    THEN CutWords(result, 1, HistoryCut)
    ELSE result

\* lines 467-482: one line per record, the results of the records before
\* the last five cut
FormatHistory(h) ==
    [i \in DOMAIN h |->
        <<"- Step", i, ":", h[i].description, "(Action:", h[i].action,
          ") -> Result:">>
        \o (IF i <= Len(h) - KEEP_FULL_CONTEXT_STEPS
            THEN TruncateResult(h[i].result) ELSE h[i].result)]

NoContext == [history_str |-> <<>>, cycle_warning |-> NoWarning,
              last_step_desc |-> "", last_step_result |-> <<>>]

\* the context of the update_plan request of lines 564-573
ReplanContext(h) ==
    [history_str |-> FormatHistory(h),
     cycle_warning |-> CycleWarning(h),
     last_step_desc |-> h[Len(h)].description,
     last_step_result |-> AugmentResult(h[Len(h)].result)]

----------------------------------------------------------------------------
(* The run: Orchestrator.process_request *)

max_steps == 20

Task == "open example.com and read the heading"

NoOutput == [kind |-> "none", text |-> <<>>, material |-> <<>>]

\* the text returned, and the results it was produced from
OutputOf(kind, text, material) == [kind |-> kind, text |-> text, material |-> material]

\* log_action without its try/except
log_action_unprotected(db_ok) == IF db_ok THEN "logged" ELSE "raise"

\* logger_db.log_action: a database fault is caught inside (lines 114-131)
log_action(db_ok) == IF db_ok THEN "logged" ELSE "swallowed"

\* str() of the PlannerError of planner.py lines 714-717, for the last
\* errors and raw outputs the runs are explored with
PlannerFailures ==
    {<<"Failed", "to", "build", "a", "valid", "plan", "after", "3",
       "attempts.", "Last", "error:">> \o f.err \o <<". Raw", "output:">>
     \o f.raw \o <<"(Raw:">> \o f.raw \o <<"...)">> :
        f \in {[err |-> <<"LLM", "returned", "no", "JSON", "object">>,
                raw |-> <<"no", "json", "here">>],
               [err |-> <<"LLM", "API", "Error:">> \o TimeoutText,
                raw |-> <<>>]}}
DriverFailure == <<"BrowserType.launch:", "Executable", "doesn't", "exist">>

\* the handler of lines 723-733: log FINAL_ANSWER, return the error text
Except(e) ==
    \E db_ok \in BOOLEAN :
        IF log_action(db_ok) = "raise"
        THEN pc' = "raised" /\ final_output' = final_output
        ELSE /\ pc' = "returned"
             /\ final_output' = OutputOf("error", <<"Error:">> \o e, <<>>)

\* a loop that asks again only for an empty plan
PrematureOnlyEmpty(p) == p.steps = <<>>

\* lines 122-124
Premature(p) ==
    \/ p.steps = <<>>
    \/ Len(p.steps) = 1 /\ p.steps[1].action \in {"finish", "extract"}

\* no Plan is under construction
PlanIdle ==
    /\ cand_ids = <<>>
    /\ verdict = "none"
    /\ cand_action = "none"
    /\ step_verdict = "none"

\* execute_step is not running on its own
StepIdle ==
    /\ es_pc = "none"
    /\ es_step = Step(0, "none", <<>>)
    /\ es_vlm_client = FALSE
    /\ es_attempt = 0
    /\ es_out = Outcome(<<>>)
    /\ es_tried = <<>>
    /\ es_events = <<>>

\* an entry of memory_db.json that is not an object with "domain"
MalformedEntry == [foo |-> 1]

WellFormed(entry) == "domain" \in DOMAIN entry

\* what LongTermMemory._load leaves in `data` at construction
\* (long_term_memory.py lines 10-24)
StoredMemories == {<<>>, <<MalformedEntry>>}

\* no request is being processed; the memory file is whatever it is
RunStart ==
    /\ pc = "idle"
    /\ stop_requested = FALSE
    /\ plan = NoPlan
    /\ step_count = 0
    /\ results = <<>>
    /\ execution_history = <<>>
    /\ final_page_content = <<>>
    /\ final_output = NoOutput
    /\ is_browser_started = FALSE
    /\ update_context = NoContext
    /\ planner_failed = FALSE
    /\ planner_error = FALSE
    /\ guarded_steps = 0
    /\ page_url = NoPage
    /\ new_plan = NoPlan

\* no request is being processed and there is no memory file
RunIdle == RunStart /\ memory_data = <<>>

\* _generate_plan_with_retry is not running on its own
RetryIdle ==
    /\ gp_pc = "none"
    /\ attempt = 0
    /\ last_err = <<>>
    /\ last_raw = <<>>
    /\ llm_requests = <<>>
    /\ attempt_errors = <<>>
    /\ gp_result = [raised |-> "", ids |-> <<>>, message |-> <<>>]

\* concurrent /chat clients that are explored
MaxClients == 2
Clients == 1..MaxClients

\* no server is running around the orchestrator
ServerIdle ==
    /\ worker_pc = "none"
    /\ orchestrator = FALSE
    /\ init_error = FALSE
    /\ init_i = 0
    /\ request_queue = <<>>
    /\ result_queues = [c \in Clients |-> <<>>]
    /\ current = 0
    /\ enqueued = <<>>
    /\ served = <<>>
    /\ stopped_during = {}
    /\ chat_calls = [c \in Clients |-> "none"]

NoSnapshot == [viewport |-> [w |-> 0, h |-> 0], elements |-> <<>>]
NoScan == [kind |-> "none", snapshot |-> NoSnapshot]

\* no replanning cycle is running on its own
ReplanIdle ==
    /\ rp_pc = "none"
    /\ rp_h = <<>>
    /\ rp_new_plan = NoPlan
    /\ rp_context_critique = FALSE
    /\ rp_shots = <<>>
    /\ rp_calls = <<>>
    /\ rp_result = "none"

NoEnv == [credentials |-> FALSE, transport |-> "none", body |-> "none"]
None == [is_none |-> TRUE, raised |-> FALSE, items |-> <<>>]

\* no search step is running on its own
SearchIdle ==
    /\ sr_pc = "none"
    /\ sr_env = NoEnv
    /\ sr_api_results = None
    /\ sr_fallback = FALSE
    /\ sr_result = <<>>

\* no request is followed through its log writes
LogIdle ==
    /\ lg_pc = "none"
    /\ lg_request = 0
    /\ lg_session = 0
    /\ lg_usage = "LLM_USAGE"
    /\ lg_calls = <<>>

ExtraIdle == ReplanIdle /\ SearchIdle /\ LogIdle

\* no scan is running on its own
ScanIdle ==
    /\ sc_pc = "none"
    /\ sc_nodes = <<>>
    /\ sc_viewport = [w |-> 0, h |-> 0]
    /\ sc_max_elements = 0
    /\ sc_image_path = ""
    /\ sc_dpr = 1
    /\ snapshot = NoSnapshot
    /\ sc_changed = FALSE
    /\ sc_prev = NoScan
    /\ sc_faulty = {}

Init ==
    RunStart /\ memory_data \in StoredMemories /\ PlanIdle /\ StepIdle /\ RetryIdle /\ ServerIdle /\ ScanIdle /\ ExtraIdle

\* Orchestrator.stop, called from another thread
Stop ==
    /\ ~stop_requested
    /\ stop_requested' = TRUE
    /\ UNCHANGED <<pc, plan, step_count, results, execution_history,
                   final_page_content, final_output, is_browser_started,
                   update_context, memory_data, planner_failed, planner_error, guarded_steps, page_url, new_plan, otherVars>>

\* lines 71-80: entry, REQUEST_START is logged, the stop flag is cleared
ProcessRequest ==
    /\ pc = "idle"
    /\ \E db_ok \in BOOLEAN :
          IF log_action(db_ok) = "raise"
          THEN pc' = "raised" /\ stop_requested' = stop_requested
          ELSE pc' = "create_plan" /\ stop_requested' = FALSE
    /\ UNCHANGED <<plan, step_count, results, execution_history,
                   final_page_content, final_output, is_browser_started,
                   update_context, memory_data, planner_failed, planner_error, guarded_steps, page_url, new_plan, otherVars>>

\* lines 114-119
CreatePlan ==
    /\ pc = "create_plan"
    /\ \E ok \in BOOLEAN :
          IF ok
          THEN \E p \in InitialPlans :
                  /\ plan' = p
                  /\ pc' = IF Premature(p) THEN "retry_plan" ELSE "start_browser"
                  /\ final_output' = final_output
                  /\ planner_failed' = planner_failed
                  /\ planner_error' = planner_error
          ELSE /\ \E e \in PlannerFailures : Except(e)
               /\ plan' = plan
               /\ planner_failed' = TRUE
               /\ planner_error' = TRUE
    /\ UNCHANGED <<stop_requested, step_count, results, execution_history,
                   final_page_content, is_browser_started,
                   update_context, memory_data, guarded_steps, page_url, new_plan, otherVars>>

\* lines 121-135: one more request when the first plan is empty or premature
RetryCreatePlan ==
    /\ pc = "retry_plan"
    /\ \E ok \in BOOLEAN :
          IF ok
          THEN \E p \in InitialPlans :
                  /\ plan' = p
                  /\ pc' = "start_browser"
                  /\ final_output' = final_output
                  /\ planner_failed' = planner_failed
                  /\ planner_error' = planner_error
          ELSE /\ \E e \in PlannerFailures : Except(e)
               /\ plan' = plan
               /\ planner_failed' = TRUE
               /\ planner_error' = TRUE
    /\ UNCHANGED <<stop_requested, step_count, results, execution_history,
                   final_page_content, is_browser_started,
                   update_context, memory_data, guarded_steps, page_url, new_plan, otherVars>>

\* lines 148-165; start_browser (lines 43-47) launches the browser unless it
\* is started already, and the launch can fail
StartBrowser ==
    /\ pc = "start_browser"
    /\ \E ok \in (IF is_browser_started THEN {TRUE} ELSE BOOLEAN) :
          IF ok
          THEN /\ is_browser_started' = TRUE
               /\ page_url' = IF is_browser_started THEN page_url ELSE AboutBlank
               /\ pc' = "loop_head"
               /\ final_output' = final_output
          ELSE /\ Except(DriverFailure)
               /\ UNCHANGED <<is_browser_started, page_url>>
    /\ results' = <<>>
    /\ step_count' = 0
    /\ execution_history' = <<>>
    /\ final_page_content' = <<>>
    /\ UNCHANGED <<stop_requested, plan, update_context, memory_data,
                   planner_failed, planner_error, guarded_steps, new_plan, otherVars>>

\* the loop without the stop poll of lines 168-171
LoopDecisionNoPoll(p, n, stop) ==
    IF ~(p.steps # <<>> /\ n < max_steps) THEN "exit"
    ELSE IF p.steps[1].action = "finish" THEN "finish"
    ELSE "execute"

\* the loop with the budget test off by one
LoopDecisionOffByOne(p, n, stop) ==
    IF ~(p.steps # <<>> /\ n <= max_steps) THEN "exit"
    ELSE IF stop THEN "stopped"
    ELSE IF p.steps[1].action = "finish" THEN "finish"
    ELSE "execute"

\* lines 167-175: the loop condition, the stop poll, the finish test
LoopDecision(p, n, stop) ==
    IF ~(p.steps # <<>> /\ n < max_steps) THEN "exit"
    ELSE IF stop THEN "stopped"
    ELSE IF p.steps[1].action = "finish" THEN "finish"
    ELSE "execute"

LoopExit ==
    /\ pc = "loop_head"
    /\ LoopDecision(plan, step_count, stop_requested) = "exit"
    /\ pc' = "summary"
    /\ UNCHANGED <<stop_requested, plan, step_count, results, execution_history,
                   final_page_content, final_output, is_browser_started,
                   update_context, memory_data, planner_failed, planner_error, guarded_steps, page_url, new_plan, otherVars>>

\* lines 168-171
LoopStopped ==
    /\ pc = "loop_head"
    /\ LoopDecision(plan, step_count, stop_requested) = "stopped"
    /\ results' = Append(results, StoppedByUser)
    /\ pc' = "summary"
    /\ UNCHANGED <<stop_requested, plan, step_count, execution_history,
                   final_page_content, final_output, is_browser_started,
                   update_context, memory_data, planner_failed, planner_error, guarded_steps, page_url, new_plan, otherVars>>

\* lines 175-198
LoopFinish ==
    /\ pc = "loop_head"
    /\ LoopDecision(plan, step_count, stop_requested) = "finish"
    /\ \E content \in PageTexts \cup {CouldNotExtract} :
          /\ final_page_content' = content
          /\ results' = Append(results,
                 <<"Task", "Completed.", "Final", "Page", "Content", "Summary:">>
                 \o content)
    /\ execution_history' = Append(execution_history,
           [description |-> plan.steps[1].description, action |-> "finish",
            result |-> TaskCompletedSuccessfully, url |-> page_url])
    /\ pc' = "summary"
    /\ UNCHANGED <<stop_requested, plan, step_count, final_output,
                   is_browser_started, update_context, memory_data,
                   planner_failed, planner_error, guarded_steps, page_url, new_plan, otherVars>>

\* line 200
LoopBegin ==
    /\ pc = "loop_head"
    /\ LoopDecision(plan, step_count, stop_requested) = "execute"
    /\ step_count' = step_count + 1
    /\ pc' = "execute"
    /\ UNCHANGED <<stop_requested, plan, results, execution_history,
                   final_page_content, final_output, is_browser_started,
                   update_context, memory_data, planner_failed, planner_error, guarded_steps, page_url, new_plan, otherVars>>

\* whether executing `step` runs the pre-step guards: they are the first
\* statements of execute_step (vlm.py lines 363-376), which the branches of
\* orchestrator.py lines 216, 238 and 269 do not call
RunsGuards(step) ==
    /\ step.action \notin {"ask_user", "extract", "search"}
    /\ CallBinds(execute_step_args, execute_step_params)

\* lines 215-382: obtain the outcome, append it to results and to the history
ExecuteStep ==
    /\ pc = "execute"
    /\ guarded_steps' = IF RunsGuards(plan.steps[1])
                        THEN guarded_steps + 1 ELSE guarded_steps
    /\ LET step == plan.steps[1]
       IN \E o \in OutcomeChoices(step, stop_requested, execution_history) :
             IF o.raised
             THEN /\ Except(o.text)
                  /\ UNCHANGED <<results, execution_history, page_url>>
             ELSE /\ results' = Append(results, ResultLine(step, o.text))
                  /\ page_url' \in UrlsAfter(step, o.text, page_url)
                  /\ execution_history' =
                         Append(execution_history,
                                Record(step, o.text, page_url'))
                  /\ pc' = IF Contains(o.text, BrowserClosedText)
                           THEN "restart" ELSE "replan"
                  /\ final_output' = final_output
    /\ UNCHANGED <<stop_requested, plan, step_count, final_page_content,
                   is_browser_started, update_context, memory_data,
                   planner_failed, planner_error, new_plan, otherVars>>

\* a loop that goes on with the old plan once the browser is back
RestartBrowserSkipsReplan ==
    /\ pc = "restart"
    /\ pc' = "loop_head"
    /\ is_browser_started' = TRUE
    /\ UNCHANGED <<stop_requested, plan, step_count, results, execution_history,
                   final_page_content, final_output,
                   update_context, memory_data, planner_failed, planner_error, guarded_steps, page_url, new_plan, otherVars>>

\* lines 382-388: close_browser (lines 49-53), which clears the flag only
\* after BrowserController.close returned, then start_browser (lines 43-47);
\* neither call is guarded, a fault of either reaches the handler of line 723
RestartBrowser ==
    /\ pc = "restart"
    /\ \E closed \in (IF is_browser_started THEN BOOLEAN ELSE {TRUE}),
          started \in BOOLEAN :
          IF ~closed
          THEN /\ is_browser_started' = is_browser_started
               /\ page_url' = page_url
               /\ Except(BrowserClosedText)
          ELSE IF ~started
          THEN /\ is_browser_started' = FALSE
               /\ page_url' = NoPage
               /\ Except(DriverFailure)
          ELSE /\ is_browser_started' = TRUE
               /\ page_url' = AboutBlank
               /\ pc' = "replan"
               /\ final_output' = final_output
    /\ UNCHANGED <<stop_requested, plan, step_count, results, execution_history,
                   final_page_content, update_context, memory_data,
                   planner_failed, planner_error, guarded_steps, new_plan, otherVars>>

(* Replanning: lines 549-681 *)

\* what a request of a plan gave: the plan, or the exception that ended it
PlanReply(p) == [ok |-> TRUE, plan |-> p, error |-> "none"]
\* PlannerError of _generate_plan_with_retry (planner.py lines 714-717)
PlanFailed == [ok |-> FALSE, plan |-> NoPlan, error |-> "PlannerError"]
\* browser_controller.screenshot raised at line 590, before the request
ScreenshotFailed == [ok |-> FALSE, plan |-> NoPlan, error |-> "screenshot"]

SkipScreenshot == "SKIP_SCREENSHOT"
PlanningScreenshot == "screenshots/planning_context.png"
NoImage == "None"

\* files _ask_llm can open as image_path (planner.py lines 388-393)
ImageFiles == {PlanningScreenshot}

\* planner.update_plan: a validated Plan out of `plans`, or an exception;
\* _ask_llm opens image_path (planner.py line 392), a file that is missing
\* fails every attempt of the retry loop
UpdatePlanRepliesOver(plans, image_path) ==
    IF image_path # NoImage /\ image_path \notin ImageFiles
    THEN {PlanFailed}
    ELSE {PlanReply(p) : p \in plans} \cup {PlanFailed}

UpdatePlanReplies(h, image_path) ==
    UpdatePlanRepliesOver(PlannerPlans(h), image_path)

\* lines 576-607: the planner asked for a screenshot; the screenshot of
\* line 590 is taken inside the try of line 554 and can raise, after it the
\* plan is requested again with the image
VisionReplies(h, r) ==
    IF ~r.ok THEN {r}
    ELSE IF r.plan.needs_vision
         THEN {ScreenshotFailed} \cup UpdatePlanReplies(h, PlanningScreenshot)
         ELSE {r}

\* a loop that sends every plan to the critique
CritiquedAlways(p) == TRUE

\* lines 611-614
Critiqued(p) ==
    p.steps # <<>> /\ ~(Len(p.steps) = 1 /\ p.steps[1].action = "extract")

\* lines 609-639: critique pass and the re-request it triggers
CritiqueReplies(h, r) ==
    IF ~r.ok THEN {r}
    ELSE IF Critiqued(r.plan)
         THEN {r} \cup UpdatePlanReplies(h,
                  IF r.plan.needs_vision THEN SkipScreenshot ELSE NoImage)
         ELSE {r}

Break == [break |-> TRUE, plan |-> NoPlan]
Assign(p) == [break |-> FALSE, plan |-> p]

\* a loop without the completion test of lines 649-670
ReplanDecisionsNoCompletionTest(h, r) ==
    IF ~r.ok THEN {Break}
    ELSE IF r.plan.steps = <<>> THEN {Break}
    ELSE {Assign(r.plan)}

\* lines 641-681: break, or the plan that replaces the active one
ReplanDecisions(h, r) ==
    IF ~r.ok THEN {Break}
    ELSE IF r.plan.steps = <<>> THEN {Break}
    ELSE IF /\ Len(r.plan.steps) = 1
            /\ r.plan.steps[1].action = "extract"
            /\ MentionsComplete(r.plan.steps[1].description)
         THEN IF Len(h) = 0
              THEN {IF q.ok THEN Assign(q.plan) ELSE Break :
                       q \in UpdatePlanReplies(h, NoImage)}
              ELSE {Break}
         ELSE {Assign(r.plan)}

\* the value of `new_plan` after the requests of lines 564, 595 and 628
\* gave the replies rs, the later ones assigning over the earlier; a request
\* that raised assigned nothing
LastAssigned(old, rs) ==
    IF \E i \in DOMAIN rs : rs[i].ok
    THEN rs[CHOOSE i \in DOMAIN rs :
                rs[i].ok /\ \A j \in (i + 1)..Len(rs) : ~rs[j].ok].plan
    ELSE old

Replan ==
    /\ pc = "replan"
    /\ update_context' = ReplanContext(execution_history)
    /\ \/ \* the request of line 564 raised: the handler of lines 672-681
          /\ pc' = "summary"
          /\ plan' = plan
          /\ planner_failed' = TRUE
          /\ planner_error' = TRUE
          /\ new_plan' = new_plan
       \/ \E r1 \in UpdatePlanReplies(execution_history, NoImage) \ {PlanFailed} :
          \E r2 \in VisionReplies(execution_history, r1) :
          \E r3 \in CritiqueReplies(execution_history, r2) :
          \E d \in ReplanDecisions(execution_history, r3) :
             /\ IF d.break
                THEN pc' = "summary" /\ plan' = plan
                ELSE pc' = "loop_head" /\ plan' = d.plan
             /\ planner_failed' = ~r3.ok
             /\ planner_error' = (r3.error = "PlannerError")
             /\ new_plan' = IF ~d.break THEN d.plan
                            ELSE LastAssigned(new_plan, <<r1, r2, r3>>)
    /\ UNCHANGED <<stop_requested, step_count, results, execution_history,
                   final_page_content, final_output, is_browser_started,
                   memory_data, guarded_steps, page_url,
                   otherVars>>

(* End of the run: lines 683-721 *)

\* str.replace(pre, "")
RECURSIVE RemoveExactFrom(_, _, _)
RemoveExactFrom(str, pre, i) ==
    IF i > Len(str) THEN ""
    ELSE IF StartsAt(str, i, pre)
         THEN RemoveExactFrom(str, pre, i + Len(pre))
         ELSE CharAt(str, i) \o RemoveExactFrom(str, pre, i + 1)

RemoveExact(str, pre) == Let(str, LAMBDA s : RemoveExactFrom(s, pre, 1))

\* urlparse(url).netloc: what follows "//" after the scheme, up to the path
Netloc(url) ==
    LET colon == Find(url, ":", 1)
    IN IF colon > 0 /\ StartsAt(url, colon + 1, "//")
       THEN TakeUntil(url, colon + 3, {"/", "?", "#"})
       ELSE ""

\* LongTermMemory.get_domain, long_term_memory.py lines 34-38
get_domain(url) == RemoveExact(Netloc(url), "www.")

KeyErrorText == <<"'domain'">>

\* LongTermMemory.add_experience, lines 40-67: the data afterwards, or the
\* KeyError of `existing["domain"]` at an entry without that key
AddUnder(data, domain, task, steps) ==
    LET Match(i) == /\ WellFormed(data[i])
                    /\ data[i].domain = domain /\ data[i].task = task
        Stops(i) == ~WellFormed(data[i]) \/ Match(i)
    IN IF domain = "" THEN [raised |-> FALSE, data |-> data]
       ELSE IF \E i \in DOMAIN data : Stops(i)
            THEN LET k == CHOOSE i \in DOMAIN data :
                             Stops(i) /\ \A j \in 1..(i - 1) : ~Stops(j)
                 IN IF Match(k)
                    THEN [raised |-> FALSE,
                          data |-> [data EXCEPT ![k] =
                                       [domain |-> domain, task |-> task,
                                        steps |-> steps]]]
                    ELSE [raised |-> TRUE, data |-> data]
            ELSE [raised |-> FALSE,
                  data |-> Append(data, [domain |-> domain, task |-> task,
                                         steps |-> steps])]

add_experience(data, url, task, steps) ==
    Let(get_domain(url), LAMBDA domain : AddUnder(data, domain, task, steps))

\* line 714
ExperienceSaved(h) == h # <<>> /\ ~Contains(h[Len(h)].result, FailedWord)

\* lines 683-721: the summary, FINAL_ANSWER, the experience; an exception of
\* add_experience reaches the handler of line 723
Summarize ==
    /\ pc = "summary"
    /\ \E saved \in {IF ExperienceSaved(execution_history)
                     THEN add_experience(memory_data, Last(execution_history).url,
                                         Task, execution_history)
                     ELSE [raised |-> FALSE, data |-> memory_data]} :
          /\ memory_data' = saved.data
          /\ IF saved.raised
             THEN Except(KeyErrorText)
             ELSE /\ pc' = "returned"
                  /\ IF results = <<>>
                     THEN final_output' = OutputOf("no_results",
                              <<"No", "action", "could", "be", "performed.">>, <<>>)
                     ELSE \E llm_ok \in BOOLEAN :
                             final_output' =
                                 IF llm_ok
                                 THEN OutputOf("summary", <<"Summary">>, results)
                                 ELSE OutputOf("summary_failed",
                                          <<"Task", "completed,", "but", "failed",
                                            "to", "generate", "summary">>, <<>>)
    /\ UNCHANGED <<stop_requested, plan, step_count, results, execution_history,
                   final_page_content, is_browser_started, update_context,
                   planner_failed, planner_error, guarded_steps, page_url, new_plan, otherVars>>

RunNext ==
    \/ ProcessRequest
    \/ CreatePlan
    \/ RetryCreatePlan
    \/ StartBrowser
    \/ LoopExit
    \/ LoopStopped
    \/ LoopFinish
    \/ LoopBegin
    \/ ExecuteStep
    \/ RestartBrowser
    \/ Replan
    \/ Summarize

Next == Stop \/ RunNext

Spec == Init /\ [][Next]_vars

\* the worker thread keeps running: every call it makes returns
FairSpec == Spec /\ WF_vars(RunNext)

----------------------------------------------------------------------------
(* Plan construction on its own *)

IdLists == UNION {[1..n -> 1..MaxStepId] : n \in 0..MaxIdListLen}

InitPlan ==
    /\ RunIdle
    /\ StepIdle
    /\ ExtraIdle
    /\ RetryIdle
    /\ ServerIdle
    /\ ScanIdle
    /\ cand_ids \in IdLists
    /\ verdict = "pending"
    /\ cand_action \in PromptActions
    /\ step_verdict = "pending"

\* Plan(...) with steps carrying cand_ids: accepted, or the ValueError raised
ConstructPlan ==
    /\ verdict = "pending"
    /\ verdict' = validate_steps(cand_ids)
    /\ UNCHANGED <<cand_ids, cand_action, step_verdict, nonPlanVars>>

\* Step(action=cand_action, ...): accepted, or the literal error of pydantic
ConstructStep ==
    /\ step_verdict = "pending"
    /\ step_verdict' = IF cand_action \in StepActions THEN "ok" ELSE "literal_error"
    /\ UNCHANGED <<cand_ids, verdict, cand_action, nonPlanVars>>

NextPlan == ConstructPlan \/ ConstructStep

SpecPlan == InitPlan /\ [][NextPlan]_vars

----------------------------------------------------------------------------
(* VisionAgent.execute_step called with its own signature:                 *)
(* vlm.py lines 352-1075                                                   *)

EsSteps == {Step(1, a, d) : a \in EsActions, d \in EsDescriptions}

InitStep ==
    /\ RunIdle
    /\ ExtraIdle
    /\ PlanIdle
    /\ RetryIdle
    /\ ServerIdle
    /\ ScanIdle
    /\ es_pc = "entry"
    /\ es_step \in EsSteps
    /\ es_vlm_client \in BOOLEAN
    /\ es_attempt = 0
    /\ es_out = Outcome(<<>>)
    /\ es_tried = <<>>
    /\ es_events = <<>>

EsReturn(o) == es_pc' = "done" /\ es_out' = o

\* line 358-359
EsEntry ==
    /\ es_pc = "entry"
    /\ IF stop_requested THEN EsReturn(Outcome(StoppedByUser))
       ELSE es_pc' = "guards" /\ es_out' = es_out
    /\ UNCHANGED <<es_step, es_vlm_client, es_attempt, es_tried, es_events,
                   nonStepVars>>

\* lines 363-380
EsGuards ==
    /\ es_pc = "guards"
    /\ \E failed \in SUBSET GuardCalls :
          LET g == pre_step_guards(failed)
          IN IF g.raised THEN EsReturn(g)
             ELSE /\ es_pc' = IF id_match(es_step.description)
                              THEN "id_based" ELSE "main"
                  /\ es_out' = es_out
    /\ UNCHANGED <<es_step, es_vlm_client, es_attempt, es_tried, es_events,
                   nonStepVars>>

\* a click that forces before it has tried the native click
IdClickEventsForceFirst(native_ok, forced_ok) ==
    On(<<Ev("forced", "id", ClickRes(forced_ok))>>, IdNode)

\* lines 412-420: element.click, and element.click(force=True) in the
\* handler of its exception
IdClickEvents(native_ok, forced_ok) ==
    On(IF native_ok THEN <<Ev("native", "id", "ok")>>
       ELSE <<Ev("native", "id", "raised"),
              Ev("forced", "id", ClickRes(forced_ok))>>,
       IdNode)

\* lines 381-456; `early` is a fault before the interaction (is_visible)
EsIdBased ==
    /\ es_pc = "id_based"
    /\ \E visible \in BOOLEAN, early \in BOOLEAN,
          native_ok \in BOOLEAN, forced_ok \in BOOLEAN :
          LET clicks == es_step.action = "click" /\ visible /\ ~early
              evs == IdClickEvents(native_ok, forced_ok)
              o == IF clicks
                   THEN id_based(es_step, TRUE, evs[Len(evs)].res = "raised")
                   ELSE id_based(es_step, visible, early)
          IN /\ IF o = Fallthrough THEN es_pc' = "main" /\ es_out' = es_out
                ELSE EsReturn(o)
             /\ es_events' = IF clicks THEN es_events \o evs ELSE es_events
    /\ es_tried' = Append(es_tried, "id")
    /\ UNCHANGED <<es_step, es_vlm_client, es_attempt, nonStepVars>>

\* whether the body looks the target up by its quoted text: the click of
\* lines 660-816, the hover of lines 905-921
TextLookup(step) ==
    step.action \in {"click", "hover"} /\ target_text(step.description) # <<>>

\* lines 775-809: the clicks behind each outcome text of the click by target
\* text; the forced click is made when the native click raised with
\* "intercepts pointer events" or "visible" in its message
TextClickEvents(t) ==
    IF Contains(t, <<"Clicked">>) THEN <<Ev("native", "text", "ok")>>
    ELSE IF Contains(t, <<"Force", "clicked">>)
         THEN <<Ev("native", "text", "raised"), Ev("forced", "text", "ok")>>
    ELSE IF Contains(t, <<"Error", "force", "clicking">>)
         THEN <<Ev("native", "text", "raised"), Ev("forced", "text", "raised")>>
    ELSE IF Contains(t, <<"Error", "clicking">>)
         THEN <<Ev("native", "text", "raised")>>
    ELSE <<>>

\* lines 458-1075 up to the first query of the visual oracle; the element
\* the lookups of lines 727-773 find by the quoted text is the one that
\* carries the id of the description, or another
EsMain ==
    /\ es_pc = "main"
    /\ \E b \in MainBody(es_step, es_vlm_client) :
          LET o == Catch(b)
          IN /\ IF o = ToVlm
                THEN /\ es_pc' = IF PollsBeforeVlm(es_step.action)
                                 THEN "vlm" ELSE "vlm_query"
                     /\ es_out' = es_out
                ELSE IF o = Fallthrough THEN EsReturn(NoSpecificLogic(es_step))
                ELSE EsReturn(o)
             /\ IF es_step.action = "click" /\ ~b.raised
                   /\ TextClickEvents(b.text) # <<>>
                THEN \E n \in ClickNodes :
                        es_events' = es_events \o On(TextClickEvents(b.text), n)
                ELSE es_events' = es_events
    /\ es_tried' = IF TextLookup(es_step) THEN Append(es_tried, "text")
                   ELSE es_tried
    /\ UNCHANGED <<es_step, es_vlm_client, es_attempt, nonStepVars>>

\* lines 575, 824, 923: the poll of check_stop_callback before the page is
\* marked and photographed for the visual oracle
EsVlmPoll ==
    /\ es_pc = "vlm"
    /\ IF stop_requested THEN EsReturn(Outcome(StoppedByUser))
       ELSE es_pc' = "vlm_query" /\ es_out' = es_out
    /\ UNCHANGED <<es_step, es_vlm_client, es_attempt, es_tried, es_events,
                   nonStepVars>>

\* lines 577-621, 826-898, 925-951, 1041-1070: the page is marked and
\* photographed, the visual oracle is asked, and the interaction follows;
\* the flag is not looked at again, whatever it has become since the poll
EsVlm ==
    /\ es_pc = "vlm_query"
    /\ es_tried' = IF es_attempt > 0 THEN es_tried ELSE Append(es_tried, "vlm")
    /\ CASE es_step.action = "click" ->
              \E o \in VlmClickPass : \E evs \in VlmPassEvents(o) :
              \E n \in ClickNodes :
                 /\ es_events' = es_events \o On(evs, n)
                 /\ IF o # Fallthrough
                    THEN EsReturn(o) /\ es_attempt' = es_attempt
                    ELSE /\ es_attempt' = es_attempt + 1
                         /\ IF MorePasses(es_attempt + 1)
                            THEN es_pc' = "vlm" /\ es_out' = es_out
                            ELSE EsReturn(Outcome(
                                    <<"Failed", "to", "click:", "VLM",
                                      "could", "not", "find", "target",
                                      "after", "scrolling">>))
         [] es_step.action = "type" ->
              /\ \E o \in TypeFinish(es_step.description, VlmId) : EsReturn(o)
              /\ UNCHANGED <<es_attempt, es_events>>
         [] es_step.action = "hover" ->
              /\ \E o \in VlmHoverPass : EsReturn(o)
              /\ UNCHANGED <<es_attempt, es_events>>
         [] OTHER ->
              /\ \E o \in VlmExtractPass : EsReturn(o)
              /\ UNCHANGED <<es_attempt, es_events>>
    /\ UNCHANGED <<es_step, es_vlm_client, nonStepVars>>

\* Orchestrator.stop, reached through check_stop_callback
EsStop ==
    /\ es_pc # "done"
    /\ ~stop_requested
    /\ stop_requested' = TRUE
    /\ UNCHANGED <<pc, plan, step_count, results, execution_history,
                   final_page_content, final_output, is_browser_started,
                   update_context, memory_data, planner_failed, planner_error, guarded_steps, page_url, new_plan, otherVars>>

NextStep ==
    EsEntry \/ EsGuards \/ EsIdBased \/ EsMain \/ EsVlmPoll \/ EsVlm \/ EsStop

SpecStep == InitStep /\ [][NextStep]_vars

----------------------------------------------------------------------------
(* Planner._generate_plan_with_retry: planner.py lines 656-717 *)

\* @dataclass(frozen=True) class PlannerError(Exception), lines 153-159: the
\* generated __init__ takes message and, with a default, raw_output
PlannerError_params == <<"message", "raw_output">>
PlannerError_required == {"message"}

\* whether PlannerError(...) with npos positional arguments and the keyword
\* arguments kwargs binds to the parameters
PlannerErrorBinds(npos, kwargs) ==
    LET positional == {PlannerError_params[i] : i \in 1..npos}
        names == {PlannerError_params[i] : i \in DOMAIN PlannerError_params}
    IN /\ npos <= Len(PlannerError_params)
       /\ kwargs \subseteq names
       /\ kwargs \cap positional = {}
       /\ PlannerError_required \subseteq (positional \cup kwargs)

\* the exception a `raise PlannerError(...)` ends in
RaisePlannerError(npos, kwargs) ==
    IF PlannerErrorBinds(npos, kwargs) THEN "PlannerError" ELSE "TypeError"

\* PlannerError.__str__, line 159 (every modelled raw output is shorter than
\* the 200 characters it is cut to)
PlannerErrorStr(message, raw_output) ==
    message \o <<"(Raw:">> \o raw_output \o <<"...)">>

\* the message of lines 714-717
FailureMessage(err, raw) ==
    <<"Failed", "to", "build", "a", "valid", "plan", "after", "3",
      "attempts.", "Last", "error:">> \o err \o <<". Raw", "output:">> \o raw

\* `for attempt in range(1, 4)`, line 669
MaxAttempts == 3

NoReplyIds == <<>>

NoJsonHere == <<"no", "json", "here">>
NotJson == <<"{not", "json}">>
PlanJson == <<"{\"steps\":", "[...]}">>

\* what one _ask_llm request can end in: an API fault, text without a JSON
\* object, text that is not JSON, or a JSON plan with the given step ids
LlmReplies ==
    {[kind |-> "api_error", err |-> e, ids |-> NoReplyIds, raw |-> <<>>] :
        e \in DriverErrors}
    \cup {[kind |-> "no_json", err |-> <<>>, ids |-> NoReplyIds, raw |-> NoJsonHere],
          [kind |-> "bad_json", err |-> <<>>, ids |-> NoReplyIds, raw |-> NotJson]}
    \cup {[kind |-> "plan", err |-> <<>>, ids |-> ids, raw |-> PlanJson] :
             ids \in IdLists}

\* the error text an attempt leaves in last_err (lines 692, 701, 707, 711)
AttemptError(reply) ==
    CASE reply.kind = "api_error" -> <<"LLM", "API", "Error:">> \o reply.err
      [] reply.kind = "bad_json" -> <<"JSONDecodeError:", "Expecting", "value">>
      [] reply.kind = "no_json" -> <<"LLM", "returned", "no", "JSON", "object">>
      [] OTHER -> <<"Pydantic", "ValidationError:", validate_steps(reply.ids)>>

\* a retry request that repeats the raw output only
ExtraTextWithoutError(n, err, raw) ==
    IF n > 1
    THEN <<"Fix", "the", "previous", "output.", "Previous", "raw", "output:">>
         \o raw
    ELSE <<>>

\* `extra` of an attempt, lines 670-679
ExtraText(n, err, raw) ==
    IF n > 1
    THEN <<"Fix", "the", "previous", "output.", "Return", "ONLY", "corrected",
           "JSON.", "Validation/parsing", "error:">> \o err
         \o <<"Previous", "raw", "output:">> \o raw
    ELSE <<>>

NoPlanResult == [raised |-> "", ids |-> <<>>, message |-> <<>>]

InitRetry ==
    /\ RunIdle
    /\ PlanIdle
    /\ StepIdle
    /\ ExtraIdle
    /\ ServerIdle
    /\ ScanIdle
    /\ gp_pc = "loop"
    /\ attempt = 1
    /\ last_err = <<>>
    /\ last_raw = <<>>
    /\ llm_requests = <<>>
    /\ attempt_errors = <<>>
    /\ gp_result = NoPlanResult

\* one pass of the loop, lines 669-712
AskLlm ==
    /\ gp_pc = "loop"
    /\ attempt <= MaxAttempts
    /\ llm_requests' = Append(llm_requests, ExtraText(attempt, last_err, last_raw))
    /\ \E reply \in LlmReplies :
          /\ last_raw' = IF reply.kind = "api_error" THEN last_raw ELSE reply.raw
          /\ IF reply.kind = "plan" /\ validate_steps(reply.ids) = "ok"
             THEN /\ gp_pc' = "returned"
                  /\ gp_result' = [NoPlanResult EXCEPT !.ids = reply.ids]
                  /\ UNCHANGED <<attempt, last_err, attempt_errors>>
             ELSE IF /\ reply.kind = "no_json"
                     /\ RaisePlannerError(1, {"raw_output"}) # "PlannerError"
             THEN \* extract_json, line 178: not what line 710 catches
                  /\ gp_pc' = "raised"
                  /\ gp_result' = [NoPlanResult EXCEPT
                                      !.raised = RaisePlannerError(1, {"raw_output"})]
                  /\ UNCHANGED <<attempt, last_err, attempt_errors>>
             ELSE /\ last_err' = AttemptError(reply)
                  /\ attempt_errors' = Append(attempt_errors, last_err')
                  /\ attempt' = attempt + 1
                  /\ UNCHANGED <<gp_pc, gp_result>>
    /\ UNCHANGED nonRetryVars

\* lines 714-717: the loop is over without a plan
GiveUp ==
    /\ gp_pc = "loop"
    /\ attempt > MaxAttempts
    /\ gp_pc' = "raised"
    /\ gp_result' = [raised |-> RaisePlannerError(0, {"message", "raw_output"}),
                     ids |-> <<>>,
                     message |-> FailureMessage(last_err, last_raw)]
    /\ UNCHANGED <<attempt, last_err, last_raw, llm_requests, attempt_errors,
                   nonRetryVars>>

NextRetry == AskLlm \/ GiveUp

SpecRetry == InitRetry /\ [][NextRetry]_vars

----------------------------------------------------------------------------
(* The server: one AgentWorker thread fed by a queue, server.py 67-207 *)

\* records of one request's run that the environment chooses freely; the
\* planner ends the run after them
ServerVaried == 1

\* line 155
max_retries == 5

\* the stop signal of lifespan, line 43: request_queue.put(None)
StopSignal == 0

\* the worker thread has ended: is_alive() is false
WorkerEnded == worker_pc \in {"dead", "stopped"}

InitServer ==
    /\ pc = "off"
    /\ stop_requested = FALSE
    /\ plan = NoPlan
    /\ step_count = 0
    /\ results = <<>>
    /\ execution_history = <<>>
    /\ final_page_content = <<>>
    /\ final_output = NoOutput
    /\ is_browser_started = FALSE
    /\ update_context = NoContext
    /\ memory_data = <<>>
    /\ planner_failed = FALSE
    /\ planner_error = FALSE
    /\ guarded_steps = 0
    /\ page_url = NoPage
    /\ new_plan = NoPlan
    /\ PlanIdle
    /\ StepIdle
    /\ ExtraIdle
    /\ RetryIdle
    /\ ScanIdle
    /\ worker_pc = "construct"
    /\ orchestrator = FALSE
    /\ init_error = FALSE
    /\ init_i = 0
    /\ request_queue = <<>>
    /\ result_queues = [c \in Clients |-> <<>>]
    /\ current = 0
    /\ enqueued = <<>>
    /\ served = <<>>
    /\ stopped_during = {}
    /\ chat_calls = [c \in Clients |-> "none"]

\* _initialize, lines 166-173, and run, lines 80-84: the exception of the
\* last attempt leaves _initialize and ends the thread with init_error set;
\* an earlier one is followed by the sleep of line 173
AttemptFailed ==
    IF init_i = max_retries - 1
    THEN init_error' = TRUE /\ worker_pc' = "dead"
    ELSE init_error' = init_error /\ worker_pc' = "sleep"

\* _initialize, lines 157-164: a new Orchestrator (flag unset, browser not
\* started, lines 34-36) is assigned to self.orchestrator, or its
\* constructor raises and self.orchestrator keeps what it held
WorkerConstruct ==
    /\ worker_pc = "construct"
    /\ \E raised \in BOOLEAN :
          IF raised
          THEN /\ AttemptFailed
               /\ UNCHANGED <<orchestrator, stop_requested, is_browser_started,
                              page_url>>
          ELSE /\ orchestrator' = TRUE
               /\ stop_requested' = FALSE
               /\ is_browser_started' = FALSE
               /\ page_url' = NoPage
               /\ worker_pc' = "start"
               /\ init_error' = init_error
    /\ UNCHANGED <<chat_calls, pc, plan, step_count, results,
                   execution_history, final_page_content, final_output,
                   update_context, memory_data, planner_failed, planner_error, guarded_steps, new_plan,
                   init_i, request_queue, result_queues, current, enqueued, served,
                   stopped_during, planVars, stepVars, retryVars, scanVars, extraVars>>

\* _initialize, line 165: start_browser of the orchestrator just assigned
WorkerStartBrowser ==
    /\ worker_pc = "start"
    /\ \E ok \in BOOLEAN :
          IF ok
          THEN /\ is_browser_started' = TRUE
               /\ page_url' = AboutBlank
               /\ worker_pc' = "polling"
               /\ init_error' = init_error
          ELSE /\ AttemptFailed
               /\ UNCHANGED <<is_browser_started, page_url>>
    /\ UNCHANGED <<chat_calls, pc, stop_requested, plan, step_count, results,
                   execution_history, final_page_content, final_output,
                   update_context, memory_data, planner_failed, planner_error, guarded_steps, new_plan,
                   orchestrator, init_i, request_queue, result_queues, current,
                   enqueued, served, stopped_during,
                   planVars, stepVars, retryVars, scanVars, extraVars>>

\* _initialize, line 173 and the next pass of the loop of line 156
WorkerSleep ==
    /\ worker_pc = "sleep"
    /\ init_i' = init_i + 1
    /\ worker_pc' = "construct"
    /\ UNCHANGED <<chat_calls, runVars, orchestrator, init_error, request_queue,
                   result_queues, current, enqueued, served, stopped_during,
                   planVars, stepVars, retryVars, scanVars, extraVars>>

\* _initialize, lines 177-193: one pass of the polling for the extension.
\* is_extension_installed returns False without a browser and on every
\* exception (browser_controller.py lines 50-51 and 117-119), so the loop
\* is left only for the extension or the stop flag
WorkerPollExtension ==
    /\ worker_pc = "polling"
    /\ \E installed \in BOOLEAN :
          worker_pc' = IF installed \/ stop_requested THEN "get" ELSE "polling"
    /\ UNCHANGED <<runVars, orchestrator, init_error, init_i, request_queue,
                   result_queues, current, enqueued, served, stopped_during,
                   chat_calls, planVars, stepVars, retryVars, scanVars, extraVars>>

\* chat_endpoint, lines 279-291: the request is refused when the worker
\* has failed to initialize or its thread has ended; else process_query is
\* handed to the thread pool, where it runs later
ChatEndpoint(c) ==
    /\ chat_calls[c] = "none"
    /\ chat_calls' = [chat_calls EXCEPT ![c] =
           IF init_error \/ WorkerEnded THEN "refused" ELSE "threadpool"]
    /\ UNCHANGED <<runVars, worker_pc, orchestrator, init_error, init_i,
                   request_queue, result_queues, current, enqueued, served,
                   stopped_during, planVars, stepVars, retryVars, scanVars,
                   extraVars>>

\* process_query, lines 198-203, in a thread of the pool: init_error is
\* looked at once more and raised; else the request is put on the queue,
\* whether the worker thread is alive or not, and the caller waits for the
\* result
ProcessQuery(c) ==
    /\ chat_calls[c] = "threadpool"
    /\ IF init_error
       THEN /\ chat_calls' = [chat_calls EXCEPT ![c] = "raised"]
            /\ UNCHANGED <<request_queue, enqueued>>
       ELSE /\ chat_calls' = [chat_calls EXCEPT ![c] = "waiting"]
            /\ request_queue' = Append(request_queue, c)
            /\ enqueued' = Append(enqueued, c)
    /\ UNCHANGED <<runVars, worker_pc, orchestrator, init_error, init_i,
                   result_queues, current, served, stopped_during,
                   planVars, stepVars, retryVars, scanVars, extraVars>>

\* lifespan, lines 42-44: the shutdown of the application puts the stop
\* signal behind whatever the queue holds
Shutdown ==
    /\ worker_pc # "stopped"
    /\ \A i \in DOMAIN request_queue : request_queue[i] # StopSignal
    /\ request_queue' = Append(request_queue, StopSignal)
    /\ UNCHANGED <<chat_calls, runVars, worker_pc, orchestrator, init_error, init_i,
                   result_queues, current, enqueued, served, stopped_during,
                   planVars, stepVars, retryVars, scanVars, extraVars>>

\* run, lines 89-95 and 126: the stop signal ends the loop and the thread;
\* a request is taken and process_request is entered
WorkerGet ==
    /\ worker_pc = "get"
    /\ request_queue # <<>>
    /\ request_queue' = Tail(request_queue)
    /\ IF Head(request_queue) = StopSignal
       THEN /\ worker_pc' = "stopped"
            /\ UNCHANGED <<current, served, pc>>
       ELSE /\ current' = Head(request_queue)
            /\ served' = Append(served, Head(request_queue))
            /\ worker_pc' = "busy"
            /\ pc' = "idle"
    /\ UNCHANGED <<chat_calls, stop_requested, plan, step_count, results, execution_history,
                   final_page_content, final_output, is_browser_started,
                   update_context, memory_data, planner_failed, planner_error, guarded_steps, page_url, new_plan,
                   orchestrator, init_error, init_i, result_queues, enqueued,
                   stopped_during, planVars, stepVars, retryVars, scanVars, extraVars>>

\* plans and step outcomes the runs of the server are explored with
ServerPlans == {MkPlan(<<>>, FALSE), MkPlan(<<FinishStep(1)>>, FALSE),
                MkPlan(<<Step(1, "extract", D1)>>, FALSE),
                MkPlan(<<Step(1, "search", D1)>>, FALSE)}
ServerResults == {<<"Extracted", "Text:", "Hello">>,
                  <<"Failed", "to", "extract", "text:">> \o BrowserClosedText,
                  TypedIntoSearch(D1),
                  TaskCompletedSuccessfully}

\* process_request running in the worker thread
WorkerRun ==
    /\ worker_pc = "busy"
    /\ RunNext
    /\ plan' \in ServerPlans
    /\ \A i \in DOMAIN execution_history' :
          execution_history'[i].result \in ServerResults
    /\ (pc = "replan" /\ Len(execution_history) >= ServerVaried)
          => (pc' = "summary" \/ IsTerminal(plan'))

\* run, lines 133-142: the result goes to the request's own queue; the
\* locals of the call are gone
WorkerPut ==
    /\ worker_pc = "busy"
    /\ pc \in {"returned", "raised"}
    /\ result_queues' = [result_queues EXCEPT ![current] =
           Append(@, IF pc = "returned"
                     THEN [status |-> "success", result |-> final_output.text]
                     ELSE [status |-> "error", result |-> <<>>])]
    /\ current' = 0
    /\ worker_pc' = "get"
    /\ pc' = "off"
    /\ plan' = NoPlan
    /\ step_count' = 0
    /\ results' = <<>>
    /\ execution_history' = <<>>
    /\ final_page_content' = <<>>
    /\ final_output' = NoOutput
    /\ update_context' = NoContext
    /\ planner_failed' = FALSE
    /\ planner_error' = FALSE
    /\ guarded_steps' = 0
    /\ new_plan' = NoPlan
    /\ UNCHANGED <<chat_calls, stop_requested, is_browser_started, memory_data, page_url,
                   orchestrator, init_error, init_i, request_queue, enqueued,
                   served, stopped_during,
                   planVars, stepVars, retryVars, scanVars, extraVars>>

\* stop_endpoint and stop_current_task, lines 252-256 and 205-207
StopCurrentTask ==
    /\ ~WorkerEnded
    /\ orchestrator
    /\ ~stop_requested \/ (worker_pc = "busy" /\ current \notin stopped_during)
    /\ stop_requested' = TRUE
    /\ stopped_during' = IF worker_pc = "busy"
                         THEN stopped_during \cup {current} ELSE stopped_during
    /\ UNCHANGED <<chat_calls, pc, plan, step_count, results, execution_history,
                   final_page_content, final_output, is_browser_started,
                   update_context, memory_data, planner_failed, planner_error, guarded_steps, page_url, new_plan,
                   worker_pc, orchestrator, init_error, init_i, request_queue,
                   result_queues, current, enqueued, served,
                   planVars, stepVars, retryVars, scanVars, extraVars>>

NextServer ==
    \/ WorkerConstruct
    \/ WorkerStartBrowser
    \/ WorkerSleep
    \/ WorkerPollExtension
    \/ \E c \in Clients : ChatEndpoint(c)
    \/ \E c \in Clients : ProcessQuery(c)
    \/ Shutdown
    \/ WorkerGet
    \/ WorkerRun
    \/ WorkerPut
    \/ StopCurrentTask

SpecServer == InitServer /\ [][NextServer]_vars

----------------------------------------------------------------------------
(* Scans of the page: browser_controller.py, screenshot_with_bboxes        *)
(* (lines 329-551) and refresh_bbox_ids (lines 684-777)                    *)

\* candidate nodes of a page that are explored
MaxNodes == 2

\* lines 366 and 418; lines 713 and 760
MinSizeMain == 8
MinSizeRefresh == 2
\* argument padding, line 334
padding == 2

Max(a, b) == IF a >= b THEN a ELSE b
Min(a, b) == IF a <= b THEN a ELSE b

\* a clamp that lets every value through
clamp_nothing(v, lo, hi) == v
\* line 398: Math.max(lo, Math.min(hi, v))
clamp(v, lo, hi) == Max(lo, Min(hi, v))
\* lines 494-495
clamp_px(v, lo, hi) == Max(lo, Min(hi, v))

\* the value of data-pw-bbox-id of a node that no scan has tagged
NoTag == <<>>

\* lines 343-345 and 692-694: the head of the selector list of both scripts
selectors == <<"a[href]", "button">>

\* bounding rectangles and visibility of the nodes that are explored, links
\* here; a page that was just loaded carries no tag. `selector` is the place
\* in `selectors` of the first selector the node matches, `text` the node's
\* innerText; a page is the list of its nodes in document order
NodeRects ==
    [x : {-4, 0, 14}, y : {0, 10}, width : {6, 8, 30}, height : {12},
     shown : {"yes", "css_hidden", "aria_hidden"}, tag : {NoTag},
     selector : {1}, text : {"OK"}]

Viewports == {[w |-> 20, h |-> 16]}

NodeLists == UNION {[1..n -> NodeRects] : n \in 0..MaxNodes}

\* lines 359-373 and 707-719
isVisible(el, vp, min_size) ==
    /\ el.shown # "css_hidden"
    /\ ~(el.width < min_size \/ el.height < min_size)
    /\ ~(el.y + el.height <= 0 \/ el.x + el.width <= 0)
    /\ ~(el.y >= vp.h \/ el.x >= vp.w)

\* lines 406-415: the rectangle cut to the viewport
ClampedBox(el, vp) ==
    LET x == clamp(el.x, 0, vp.w)
        y == clamp(el.y, 0, vp.h)
        x2 == clamp(el.x + el.width, 0, vp.w)
        y2 == clamp(el.y + el.height, 0, vp.h)
    IN [x |-> x, y |-> y, w |-> x2 - x, h |-> y2 - y]

\* a loop that passes over the nodes an earlier scan has tagged
KeptIfUntagged(el, vp, min_size, aria_checked) ==
    /\ el.tag = NoTag
    /\ el.shown # "absent"
    /\ isVisible(el, vp, min_size)
    /\ ~(aria_checked /\ el.shown = "aria_hidden")
    /\ ~(ClampedBox(el, vp).w < min_size \/ ClampedBox(el, vp).h < min_size)

\* whether the loop body pushes the node (lines 403-418, 750-760); a node
\* that is not in the document is not among `nodes` (line 357)
Kept(el, vp, min_size, aria_checked) ==
    /\ el.shown # "absent"
    /\ isVisible(el, vp, min_size)
    /\ ~(aria_checked /\ el.shown = "aria_hidden")
    /\ ~(ClampedBox(el, vp).w < min_size \/ ClampedBox(el, vp).h < min_size)

ElementId(idx) == <<"E", idx>>

\* a counter that also advances over the nodes the loop skips
NextIdxAlways(idx, kept) == idx + 1
\* lines 420 and 762 (`E${idx++}`): the counter advances with a push only
NextIdx(idx, kept) == IF kept THEN idx + 1 ELSE idx

\* lines 356-357 and 704-705, uniq(selectors.flatMap(querySelectorAll)): the
\* places in the document of the nodes the loop walks, selector by selector
\* and in document order under one selector
Candidates(nodes) ==
    SortSeq([i \in DOMAIN nodes |-> i],
            LAMBDA a, b : \/ nodes[a].selector < nodes[b].selector
                          \/ nodes[a].selector = nodes[b].selector /\ a < b)

\* the loop of lines 400-441 and 746-768 over the candidates `cands`: `out`
\* after the candidates from i on, idx being the next number; the loop ends
\* when out has `limit` elements. `node` is the place in the document of the
\* node the loop tags with the id (lines 421 and 763)
RECURSIVE ScanLoop(_, _, _, _, _, _, _, _, _)
ScanLoop(nodes, cands, i, idx, out, vp, min_size, aria_checked, limit) ==
    IF i > Len(cands) \/ Len(out) >= limit THEN out
    ELSE LET el == nodes[cands[i]]
             kept == Kept(el, vp, min_size, aria_checked)
         IN ScanLoop(nodes, cands, i + 1, NextIdx(idx, kept),
                IF kept THEN Append(out, [id |-> ElementId(idx),
                                          node |-> cands[i],
                                          bbox |-> ClampedBox(el, vp)])
                        ELSE out,
                vp, min_size, aria_checked, limit)

\* line 440
ScanCap == 2000

\* the elements the script of lines 341-449 returns
MainScan(nodes, vp) ==
    ScanLoop(nodes, Candidates(nodes), 1, 1, <<>>, vp, MinSizeMain, TRUE, ScanCap)

\* line 452: data["elements"][:max_elements]
Truncate(elements, n) == SubSeq(elements, 1, Min(n, Len(elements)))

\* lines 502-513: whether the frame of the element is drawn and the element
\* listed; the image is the viewport at the device pixel ratio
Drawn(b, vp, dpr) ==
    LET W == vp.w * dpr
        H == vp.h * dpr
        x1 == clamp_px((b.x - padding) * dpr, 0, W - 1)
        y1 == clamp_px((b.y - padding) * dpr, 0, H - 1)
        x2 == clamp_px((b.x + b.w + padding) * dpr, 0, W - 1)
        y2 == clamp_px((b.y + b.h + padding) * dpr, 0, H - 1)
    IN ~(x2 <= x1 \/ y2 <= y1)

\* the loop of refresh_bbox_ids, lines 746-768
RefreshScan(nodes, vp, max_elements) ==
    ScanLoop(nodes, Candidates(nodes), 1, 1, <<>>, vp, MinSizeRefresh, FALSE,
             max_elements)

\* lines 430-436 and 765: what the script returns of each pushed element
Elements(out) == [k \in DOMAIN out |-> [id |-> out[k].id, bbox |-> out[k].bbox]]

\* lines 421 and 763: el.dataset.pwBboxId = id for every pushed node; no
\* other node's attribute is written
Tagged(nodes, out) ==
    [i \in DOMAIN nodes |->
        IF \E k \in DOMAIN out : out[k].node = i
        THEN [nodes[i] EXCEPT !.tag = out[CHOOSE k \in DOMAIN out : out[k].node = i].id]
        ELSE nodes[i]]

\* page.locator("[data-pw-bbox-id='<id>']").first (browser_controller.py
\* lines 633, 648; vlm.py lines 388-389): the first node of the document that
\* carries the tag, 0 if there is none
Locate(nodes, id) ==
    IF \E i \in DOMAIN nodes : nodes[i].shown # "absent" /\ nodes[i].tag = id
    THEN CHOOSE i \in DOMAIN nodes :
            /\ nodes[i].shown # "absent" /\ nodes[i].tag = id
            /\ \A j \in 1..(i - 1) : ~(nodes[j].shown # "absent" /\ nodes[j].tag = id)
    ELSE 0

\* whether the script raises at node el, a link or a button whose
\* getAttribute is not callable: the main script calls it at line 404, once
\* isVisible has let the node through; the refresh script calls it for a
\* node it pushes (line 765), and of a link or a button only in getText
\* (line 741), when innerText and textContent are empty (getType, lines
\* 723-725, returns before its calls). Neither loop body has a try/catch.
Throws(el, vp, min_size, aria_checked) ==
    IF aria_checked THEN el.shown # "absent" /\ isVisible(el, vp, min_size)
    ELSE Kept(el, vp, min_size, aria_checked) /\ el.text = ""

\* what the loop has pushed when it comes to its k-th candidate
Before(nodes, k, vp, min_size, aria_checked, limit) ==
    ScanLoop(nodes, SubSeq(Candidates(nodes), 1, k - 1), 1, 1, <<>>, vp,
             min_size, aria_checked, limit)

\* the loop reaches its k-th candidate: fewer than `limit` elements were
\* pushed before it
Reached(nodes, k, vp, min_size, aria_checked, limit) ==
    Len(Before(nodes, k, vp, min_size, aria_checked, limit)) < limit

\* the place among the candidates of the first node at which the script
\* raises, 0 if it runs to its end
FirstFault(nodes, faulty, vp, min_size, aria_checked, limit) ==
    LET cands == Candidates(nodes)
        at == {k \in DOMAIN cands :
                  /\ cands[k] \in faulty
                  /\ Throws(nodes[cands[k]], vp, min_size, aria_checked)
                  /\ Reached(nodes, k, vp, min_size, aria_checked, limit)}
    IN IF at = {} THEN 0 ELSE CHOOSE k \in at : \A j \in at : k <= j

\* the nodes the loop has tagged when it raises at its f-th candidate: the
\* candidates pushed before it and, in the refresh script, the f-th itself,
\* which line 763 tags before line 765 raises (the main script raises at
\* line 404, before the tag of line 421)
TaggedAtFault(nodes, f, vp, min_size, aria_checked, limit) ==
    LET before == Before(nodes, f, vp, min_size, aria_checked, limit)
        node == Candidates(nodes)[f]
    IN IF aria_checked THEN before
       ELSE Append(before, [id |-> ElementId(Len(before) + 1), node |-> node,
                            bbox |-> ClampedBox(nodes[node], vp)])

\* page.evaluate raised (lines 451 and 777 have no handler): nothing is
\* returned, the nodes tagged so far keep the ids the loop gave them
ScanRaised(f, min_size, aria_checked, limit) ==
    /\ sc_pc' = "raised"
    /\ snapshot' = NoSnapshot
    /\ sc_nodes' = Tagged(sc_nodes,
                          TaggedAtFault(sc_nodes, f, sc_viewport, min_size,
                                        aria_checked, limit))

\* lines 451-551: what screenshot_with_bboxes returns
screenshot_with_bboxes(nodes, vp, max_elements, path, dpr) ==
    LET elements == Elements(Truncate(MainScan(nodes, vp), max_elements))
    IN [viewport |-> vp,
        elements |-> IF path = SkipScreenshot THEN elements
                     ELSE SelectSeq(elements, LAMBDA el : Drawn(el.bbox, vp, dpr))]

\* lines 684-777: what refresh_bbox_ids returns
refresh_bbox_ids(nodes, vp, max_elements) ==
    [viewport |-> vp, elements |-> Elements(RefreshScan(nodes, vp, max_elements))]

InitScan ==
    /\ RunIdle
    /\ PlanIdle
    /\ StepIdle
    /\ ExtraIdle
    /\ RetryIdle
    /\ ServerIdle
    /\ sc_pc = "ready"
    /\ sc_nodes \in NodeLists
    /\ sc_viewport \in Viewports
    /\ sc_max_elements \in {1, 400}
    /\ sc_image_path \in {SkipScreenshot, PlanningScreenshot}
    /\ sc_dpr \in {1, 2}
    /\ snapshot = NoSnapshot
    /\ sc_changed = FALSE
    /\ sc_prev = NoScan
    /\ sc_faulty = {}

\* the scan before, kept for comparison when the DOM is as that scan left it
PrevScan ==
    IF sc_pc \in {"scanned", "refreshed"} /\ ~sc_changed
    THEN [kind |-> sc_pc, snapshot |-> snapshot]
    ELSE NoScan

\* one call of screenshot_with_bboxes on the present page
RunScreenshotWithBboxes ==
    /\ LET f == FirstFault(sc_nodes, sc_faulty, sc_viewport, MinSizeMain, TRUE,
                           ScanCap)
       IN IF f # 0
          THEN ScanRaised(f, MinSizeMain, TRUE, ScanCap)
          ELSE /\ sc_pc' = "scanned"
               /\ snapshot' = screenshot_with_bboxes(sc_nodes, sc_viewport,
                                  sc_max_elements, sc_image_path, sc_dpr)
               /\ sc_nodes' = Tagged(sc_nodes, MainScan(sc_nodes, sc_viewport))
    /\ sc_changed' = FALSE
    /\ sc_prev' = PrevScan
    /\ UNCHANGED <<sc_viewport, sc_max_elements, sc_image_path, sc_dpr,
                   sc_faulty, nonScanVars>>

\* one call of refresh_bbox_ids on the present page
RunRefreshBboxIds ==
    /\ LET f == FirstFault(sc_nodes, sc_faulty, sc_viewport, MinSizeRefresh,
                           FALSE, sc_max_elements)
       IN IF f # 0
          THEN ScanRaised(f, MinSizeRefresh, FALSE, sc_max_elements)
          ELSE /\ sc_pc' = "refreshed"
               /\ snapshot' = refresh_bbox_ids(sc_nodes, sc_viewport,
                                               sc_max_elements)
               /\ sc_nodes' = Tagged(sc_nodes,
                                RefreshScan(sc_nodes, sc_viewport, sc_max_elements))
    /\ sc_changed' = FALSE
    /\ sc_prev' = PrevScan
    /\ UNCHANGED <<sc_viewport, sc_max_elements, sc_image_path, sc_dpr,
                   sc_faulty, nonScanVars>>

\* the first scan of a page
ScreenshotWithBboxes == sc_pc = "ready" /\ RunScreenshotWithBboxes

RefreshBboxIds == sc_pc = "ready" /\ RunRefreshBboxIds

NextScan == ScreenshotWithBboxes \/ RefreshBboxIds

SpecScan == InitScan /\ [][NextScan]_vars

----------------------------------------------------------------------------
(* Scans of a page that changes between them *)

\* rectangles of the nodes of the changing page: one inside the viewport,
\* one reaching over its right edge
DomRects == {el \in NodeRects :
                el.shown = "yes" /\ el.y = 0 /\ el.width = 8 /\ el.x \in {0, 14}}

\* the node as a <button>, which the second selector matches
Button(el) == [el EXCEPT !.selector = 2]

\* the changing pages: links, the first node of the document being a link
\* or a button
DomPages ==
    {nodes \in [1..MaxNodes -> DomRects \cup {Button(el) : el \in DomRects}] :
        \A i \in DOMAIN nodes : nodes[i].selector = 2 => i = 1}

ShownValues == {"yes", "css_hidden", "aria_hidden", "absent"}

InitDom ==
    /\ RunIdle
    /\ PlanIdle
    /\ StepIdle
    /\ ExtraIdle
    /\ RetryIdle
    /\ ServerIdle
    /\ sc_pc = "ready"
    /\ sc_nodes \in DomPages
    /\ sc_viewport \in Viewports
    /\ sc_max_elements \in {1, 400}
    /\ sc_image_path = SkipScreenshot
    /\ sc_dpr = 1
    /\ snapshot = NoSnapshot
    /\ sc_changed = FALSE
    /\ sc_prev = NoScan
    /\ sc_faulty = {}

\* a further scan of the page, of either kind
Rescan ==
    /\ sc_pc \in {"scanned", "refreshed"}
    /\ (RunScreenshotWithBboxes \/ RunRefreshBboxIds)

\* the page changes: a node is hidden or shown, leaves the document (with
\* its attributes), or a new node takes the place
DomChange ==
    /\ \E i \in DOMAIN sc_nodes : \E v \in ShownValues \ {sc_nodes[i].shown} :
          sc_nodes' = [sc_nodes EXCEPT
              ![i] = [shown |-> v,
                      tag |-> IF v = "absent" \/ @.shown = "absent"
                              THEN NoTag ELSE @.tag,
                      x |-> @.x, y |-> @.y, width |-> @.width,
                      height |-> @.height, selector |-> @.selector,
                      text |-> @.text]]
    /\ sc_changed' = TRUE
    /\ UNCHANGED <<sc_pc, sc_viewport, sc_max_elements, sc_image_path, sc_dpr,
                   snapshot, sc_prev, sc_faulty, nonScanVars>>

NextDom == ScreenshotWithBboxes \/ RefreshBboxIds \/ Rescan \/ DomChange

SpecDom == InitDom /\ [][NextDom]_vars

----------------------------------------------------------------------------
(* Scans of a page on which the inspection of some nodes raises *)

\* the nodes of such a page: inside the viewport or reaching over its right
\* edge, shown or hidden by their style, with a text or without
FaultRects ==
    {[el EXCEPT !.text = t] :
        el \in {n \in NodeRects : /\ n.shown \in {"yes", "css_hidden"}
                                  /\ n.y = 0 /\ n.width = 8 /\ n.x \in {0, 14}},
        t \in {"", "OK"}}

InitFault ==
    /\ RunIdle
    /\ PlanIdle
    /\ StepIdle
    /\ ExtraIdle
    /\ RetryIdle
    /\ ServerIdle
    /\ sc_pc = "ready"
    /\ sc_nodes \in [1..MaxNodes -> FaultRects]
    /\ sc_viewport \in Viewports
    /\ sc_max_elements \in {1, 400}
    /\ sc_image_path \in {SkipScreenshot, PlanningScreenshot}
    /\ sc_dpr = 1
    /\ snapshot = NoSnapshot
    /\ sc_changed = FALSE
    /\ sc_prev = NoScan
    /\ sc_faulty \in SUBSET (1..MaxNodes)

SpecFault == InitFault /\ [][NextScan]_vars

----------------------------------------------------------------------------
(* One replanning cycle, planner call by planner call:                     *)
(* orchestrator.py lines 549-681                                           *)

nonReplanVars == <<runVars, planVars, stepVars, retryVars, serverVars, scanVars,
                   searchVars, logVars>>

\* plans the planner is explored with inside one cycle
CyclePlans ==
    {p \in {MkPlan(<<>>, FALSE), MkPlan(<<>>, TRUE),
            MkPlan(<<Step(1, "click", D1)>>, FALSE),
            MkPlan(<<Step(1, "click", D1)>>, TRUE),
            MkPlan(<<Step(1, "extract", D1)>>, FALSE),
            MkPlan(<<Step(1, "extract", D1)>>, TRUE),
            MkPlan(<<Step(1, "extract", CompleteDescription)>>, FALSE),
            MkPlan(<<FinishStep(1)>>, FALSE)} : PlanAccepted(p)}

\* the records the cycle starts from: the step just executed has its record
CycleHistories ==
    {<<Record(Step(1, "search", D1), TypedIntoSearch(D1), "https://ya.ru")>>,
     <<Record(Step(1, "extract", D1),
              <<"Failed", "to", "extract", "text:">> \o TimeoutText, AboutBlank),
       Record(Step(1, "extract", D1), <<"Extracted", "Text:", "Hello">>,
              AboutBlank)>>}

\* one planner.update_plan request and what it gave
UpdatePlanCall(image_path, with_critique, r) ==
    [call |-> "update_plan", image |-> image_path, critique |-> with_critique,
     reply |-> r]

\* one planner.critique_plan call on plan p and its verdict
CritiqueCall(p, is_valid) ==
    [call |-> "critique_plan", image |-> NoImage, critique |-> FALSE,
     reply |-> [ok |-> is_valid, plan |-> p, error |-> "none"]]

\* the except clause of lines 677-679
RpFailed ==
    /\ rp_pc' = "done"
    /\ rp_result' = "failed"
    /\ rp_new_plan' = rp_new_plan

\* a request answered: new_plan is assigned and the cycle goes on at `next`
RpAnswered(r, next) ==
    IF r.ok
    THEN rp_new_plan' = r.plan /\ rp_pc' = next /\ rp_result' = rp_result
    ELSE RpFailed

\* the value the local `new_plan` has when a cycle starts from history h:
\* unbound in the first cycle of a run; in a later cycle the plan the cycle
\* before assigned at line 672, whose head is the step of the last record
PreviousPlans(h) ==
    IF Len(h) <= 1 THEN {NoPlan}
    ELSE {p \in CyclePlans :
             /\ p.steps # <<>>
             /\ p.steps[1].action = h[Len(h)].action
             /\ p.steps[1].description = h[Len(h)].description
             /\ Assign(p) \in ReplanDecisions(SubSeq(h, 1, Len(h) - 1),
                                              PlanReply(p))}

InitReplan ==
    /\ RunIdle
    /\ PlanIdle
    /\ StepIdle
    /\ RetryIdle
    /\ ServerIdle
    /\ ScanIdle
    /\ SearchIdle
    /\ LogIdle
    /\ rp_pc = "update_plan"
    /\ rp_h \in CycleHistories
    /\ rp_new_plan \in PreviousPlans(rp_h)
    /\ rp_context_critique = FALSE
    /\ rp_shots = <<>>
    /\ rp_calls = <<>>
    /\ rp_result = "none"

\* lines 564-573: the request with the DOM only
RpUpdatePlan ==
    /\ rp_pc = "update_plan"
    /\ \E r \in UpdatePlanRepliesOver(CyclePlans, NoImage) :
          /\ rp_calls' = Append(rp_calls, UpdatePlanCall(NoImage, FALSE, r))
          /\ RpAnswered(r, "vision")
    /\ UNCHANGED <<rp_h, rp_context_critique, rp_shots, nonReplanVars>>

\* lines 576-607 followed by a jump to `next`: when the answer asks for
\* vision, the screenshot is taken and the plan requested with it
VisionStep(next) ==
    /\ rp_pc = "vision"
    /\ IF ~rp_new_plan.needs_vision
       THEN /\ rp_pc' = "critique"
            /\ UNCHANGED <<rp_new_plan, rp_shots, rp_calls, rp_result>>
       ELSE \E shot_ok \in BOOLEAN :
               IF ~shot_ok
               THEN RpFailed /\ UNCHANGED <<rp_shots, rp_calls>>
               ELSE /\ rp_shots' = Append(rp_shots, PlanningScreenshot)
                    /\ \E r \in UpdatePlanRepliesOver(CyclePlans,
                                                       PlanningScreenshot) :
                          /\ rp_calls' = Append(rp_calls,
                                 UpdatePlanCall(PlanningScreenshot, FALSE, r))
                          /\ RpAnswered(r, next)
    /\ UNCHANGED <<rp_h, rp_context_critique, nonReplanVars>>

\* a cycle that tests needs_vision again after the request with the image
RpVisionAgain == rp_pc = "vision" /\ VisionStep("vision")

\* lines 576-607
RpVision == rp_pc = "vision" /\ VisionStep("critique")

\* lines 609-639: the critique pass and the request it triggers
RpCritique ==
    /\ rp_pc = "critique"
    /\ IF ~Critiqued(rp_new_plan)
       THEN /\ rp_pc' = "decide"
            /\ UNCHANGED <<rp_new_plan, rp_context_critique, rp_calls, rp_result>>
       ELSE \E is_valid \in BOOLEAN :
               IF is_valid
               THEN /\ rp_calls' = Append(rp_calls,
                                          CritiqueCall(rp_new_plan, TRUE))
                    /\ rp_pc' = "decide"
                    /\ UNCHANGED <<rp_new_plan, rp_context_critique, rp_result>>
               ELSE /\ rp_context_critique' = TRUE
                    /\ LET image == IF rp_new_plan.needs_vision
                                    THEN SkipScreenshot ELSE NoImage
                       IN \E r \in UpdatePlanRepliesOver(CyclePlans, image) :
                             /\ rp_calls' = rp_calls \o
                                    <<CritiqueCall(rp_new_plan, FALSE),
                                      UpdatePlanCall(image, TRUE, r)>>
                             /\ RpAnswered(r, "decide")
    /\ UNCHANGED <<rp_h, rp_shots, nonReplanVars>>

\* lines 641-675: break, or the new plan becomes the plan
RpDecide ==
    /\ rp_pc = "decide"
    /\ \E d \in ReplanDecisions(rp_h, PlanReply(rp_new_plan)) :
          /\ rp_result' = IF d.break THEN "break" ELSE "assign"
          /\ rp_new_plan' = IF d.break THEN rp_new_plan ELSE d.plan
    /\ rp_pc' = "done"
    /\ UNCHANGED <<rp_h, rp_context_critique, rp_shots, rp_calls, nonReplanVars>>

NextReplan == RpUpdatePlan \/ RpVision \/ RpCritique \/ RpDecide

SpecReplan == InitReplan /\ [][NextReplan]_vars

----------------------------------------------------------------------------
(* A search step: tools/search.py, orchestrator.py lines 255-351 *)

nonSearchVars == <<runVars, planVars, stepVars, retryVars, serverVars, scanVars,
                   replanVars, logVars>>

List(items) == [is_none |-> FALSE, raised |-> FALSE, items |-> items]

\* yandex_search did not return: an exception left it
SearchRaised == [is_none |-> FALSE, raised |-> TRUE, items |-> <<>>]

\* search.py lines 106-110: one item of the results
Hit(n) ==
    [title |-> <<"Title1", "Title2">>[n],
     url |-> <<"https://example.com/1", "https://example.com/2">>[n],
     snippet |-> <<"Snippet1", "Snippet2">>[n]]

\* what requests.post can do (lines 55-56): answer, time out, or answer
\* with a status that raise_for_status raises on
Transports == {"ok", "timeout", "http_error"}

\* bodies of an answer with status 200: text that is not JSON; JSON without
\* rawData; rawData that b64decode raises on (wrong padding, not a string);
\* rawData of characters outside the base64 alphabet, which b64decode drops,
\* so that it decodes to bytes that are not XML; XML that declares an
\* encoding Python does not know; XML with an <error> element; base64 of
\* text that is not XML; XML with zero, one or two groups
Bodies == {"not_json", "no_raw_data", "bad_padding", "not_alphabet",
           "unknown_encoding", "api_error", "unparsable",
           "no_results", "one_result", "two_results"}

SearchEnvs == [credentials : BOOLEAN, transport : Transports, body : Bodies]

\* search.py lines 17-118: the handler of line 66 catches every exception of
\* the request and of b64decode, the one of line 116 only ET.ParseError
yandex_search(env) ==
    IF ~env.credentials THEN List(<<>>)
    ELSE IF env.transport # "ok" THEN None
    ELSE CASE env.body = "not_json"         -> None
           [] env.body = "no_raw_data"      -> None
           [] env.body = "bad_padding"      -> None
           [] env.body = "not_alphabet"     -> List(<<>>)
           [] env.body = "unknown_encoding" -> SearchRaised
           [] env.body = "api_error"        -> List(<<>>)
           [] env.body = "unparsable"       -> List(<<>>)
           [] env.body = "no_results"       -> List(<<>>)
           [] env.body = "one_result"       -> List(<<Hit(1)>>)
           [] env.body = "two_results"      -> List(<<Hit(1), Hit(2)>>)

\* what stands between the last space before the k-th item's "-" and it:
\* the end of the heading (line 268) or of the item before (line 276)
ItemLead(items, k) ==
    IF k = 1 THEN "API):\n" ELSE items[k - 1].snippet \o "\n"

\* line 276: "- [Title: {title}] [URL: {url}]\n  Snippet: {snippet}\n", the
\* words of the items from the k-th on, up to the last snippet
RECURSIVE ItemWords(_, _)
ItemWords(items, k) ==
    IF k > Len(items) THEN <<>>
    ELSE <<ItemLead(items, k) \o "-", "[Title:", items[k].title \o "]",
           "[URL:", items[k].url \o "]\n", "", "Snippet:">>
         \o ItemWords(items, k + 1)

\* lines 266-281: the text summary of the API results, word by word
ApiSummary(d, items) ==
    <<"Search", "Results", "for", Quoted(d), "(via">>
    \o ItemWords(items, 1)
    \o <<ItemLead(items, Len(items) + 1) \o "\nNOTE:">> \o ApiNote

\* lines 296-351: the search typed into ya.ru, else the results URL, else
\* the failure text
ManualSearch(d) ==
    {TypedIntoSearch(d), NavigatedFallback(d)}
    \cup {<<"Search", "failed", "completely:">> \o e : e \in DriverErrors}

InitSearch ==
    /\ RunIdle
    /\ PlanIdle
    /\ StepIdle
    /\ RetryIdle
    /\ ServerIdle
    /\ ScanIdle
    /\ ReplanIdle
    /\ LogIdle
    /\ sr_pc = "call_api"
    /\ sr_env \in SearchEnvs
    /\ sr_api_results = None
    /\ sr_fallback = FALSE
    /\ sr_result = <<>>

\* line 259; an exception of yandex_search leaves the step and the loop for
\* the handler of line 723, api_results is not assigned
SrCallApi ==
    /\ sr_pc = "call_api"
    /\ LET r == yandex_search(sr_env)
       IN IF r.raised
          THEN sr_pc' = "raised" /\ sr_api_results' = sr_api_results
          ELSE sr_pc' = "branch" /\ sr_api_results' = r
    /\ UNCHANGED <<sr_env, sr_fallback, sr_result, nonSearchVars>>

\* lines 261-351
SrResult ==
    /\ sr_pc = "branch"
    /\ IF ~sr_api_results.is_none
       THEN /\ sr_result' = ApiSummary(D1, sr_api_results.items)
            /\ sr_fallback' = FALSE
       ELSE /\ sr_result' \in ManualSearch(D1)
            /\ sr_fallback' = TRUE
    /\ sr_pc' = "done"
    /\ UNCHANGED <<sr_env, sr_api_results, nonSearchVars>>

NextSearch == SrCallApi \/ SrResult

SpecSearch == InitSearch /\ [][NextSearch]_vars

----------------------------------------------------------------------------
(* The action log of successive requests: the log_action calls of          *)
(* orchestrator.py (lines 73, 139, 203, 286, 362, 705, 726) and of         *)
(* Planner._ask_llm (planner.py lines 457-557)                             *)

nonLogVars == <<runVars, planVars, stepVars, retryVars, serverVars, scanVars,
                replanVars, searchVars>>

\* process_request calls that are followed
MaxRequests == 2

\* steps of these requests, in all, that are followed
MaxLoggedSteps == 1

\* one call of log_action (its parameters session_id and action_type)
LogCall(session, type) == [session |-> session, type |-> type]

\* planner.py lines 373-577: the action types of the usage entry that a
\* returned _ask_llm logs: the streamed usage or, the stream carrying
\* none, the estimate
UsageTypes == {"LLM_USAGE", "LLM_USAGE_ESTIMATED"}

\* the usage entries of asks returned _ask_llm calls
Usage(asks) == [i \in 1..asks |-> LogCall(lg_session, lg_usage)]

\* the STEP_START entries of calls
LoggedSteps(calls) == Len(SelectSeq(calls, LAMBDA c : c.type = "STEP_START"))

\* planner.py lines 656-717: a planner call and the _ask_llm calls of it
\* that returned: a valid first answer, MaxAttempts invalid answers, or
\* an endpoint that raises at each attempt
PlannerCalls ==
    {[ok |-> TRUE, asks |-> 1]}
        \cup {[ok |-> FALSE, asks |-> n] : n \in {0, MaxAttempts}}

\* a planner call that is not made
NotCalled == [ok |-> TRUE, asks |-> 0]

\* orchestrator.py lines 114-136: create_plan and, its plan being empty or
\* a lone finish or extract, create_plan again
CreatePlanCalls ==
    {[ok |-> c[1].ok /\ c[2].ok, asks |-> c[1].asks + c[2].asks] :
        c \in {d \in PlannerCalls \X ({NotCalled} \cup PlannerCalls) :
                  ~d[1].ok => d[2] = NotCalled}}

\* orchestrator.py lines 564-669: update_plan, update_plan with the
\* screenshot (line 595), critique_plan (line 615, one _ask_llm whose
\* exception is caught inside) and, the critique having rejected the
\* plan, update_plan again (line 628); the first failure ends the cycle
ReplanCalls ==
    {[ok |-> c[1].ok /\ c[2].ok /\ c[4].ok,
      asks |-> c[1].asks + c[2].asks + c[3] + c[4].asks] :
        c \in {d \in PlannerCalls \X ({NotCalled} \cup PlannerCalls)
                        \X {0, 1} \X ({NotCalled} \cup PlannerCalls) :
                  /\ ~d[1].ok => d[2] = NotCalled
                  /\ ~(d[1].ok /\ d[2].ok) => d[3] = 0
                  /\ d[3] = 0 => d[4] = NotCalled}}

InitLog ==
    /\ RunIdle
    /\ PlanIdle
    /\ StepIdle
    /\ RetryIdle
    /\ ServerIdle
    /\ ScanIdle
    /\ ReplanIdle
    /\ SearchIdle
    /\ lg_pc = "idle"
    /\ lg_request = 0
    /\ lg_session = 0
    /\ lg_usage \in UsageTypes
    /\ lg_calls = <<>>

\* lines 71-79: a new uuid4 is the session id, REQUEST_START is logged
LgRequestStart ==
    /\ lg_pc = "idle"
    /\ lg_request < MaxRequests
    /\ lg_request' = lg_request + 1
    /\ lg_session' = lg_request + 1
    /\ lg_calls' = Append(lg_calls, LogCall(lg_request + 1, "REQUEST_START"))
    /\ lg_pc' = "create_plan"
    /\ UNCHANGED <<lg_usage, nonLogVars>>

\* lines 86-155: the planner calls log their usage, PLAN_CREATED is logged
\* once the plan is there (line 139), the browser is started (line 150);
\* a PlannerError and a fault of the browser go to the handler
LgCreatePlan ==
    /\ lg_pc = "create_plan"
    /\ \E c \in CreatePlanCalls, started \in BOOLEAN :
          /\ lg_calls' = lg_calls \o Usage(c.asks)
                            \o (IF c.ok
                                THEN <<LogCall(lg_session, "PLAN_CREATED")>>
                                ELSE <<>>)
          /\ lg_pc' = IF c.ok /\ started THEN "loop" ELSE "handler"
    /\ UNCHANGED <<lg_request, lg_session, lg_usage, nonLogVars>>

\* lines 166-215: the loop ends (no step left, the budget, a stop, a
\* finish step) or counts the step and logs STEP_START (line 203)
LgLoop ==
    /\ lg_pc = "loop"
    /\ \/ /\ lg_pc' = "summary"
          /\ lg_calls' = lg_calls
       \/ /\ LoggedSteps(lg_calls) < MaxLoggedSteps
          /\ lg_calls' = Append(lg_calls, LogCall(lg_session, "STEP_START"))
          /\ lg_pc' = "step"
    /\ UNCHANGED <<lg_request, lg_session, lg_usage, nonLogVars>>

\* lines 216-368: the step is executed and STEP_COMPLETE is logged (line
\* 362); a search step whose API call returned None logs SEARCH_FALLBACK
\* first (line 286); an exception of the step (the TypeError of a
\* delegated step, a fault of the API client) goes to the handler
LgStep ==
    /\ lg_pc = "step"
    /\ \/ /\ lg_pc' = "handler"
          /\ lg_calls' = lg_calls
       \/ /\ \E fallback \in BOOLEAN :
                lg_calls' = lg_calls
                               \o (IF fallback
                                   THEN <<LogCall(lg_session, "SEARCH_FALLBACK")>>
                                   ELSE <<>>)
                               \o <<LogCall(lg_session, "STEP_COMPLETE")>>
          /\ lg_pc' = "replan"
    /\ UNCHANGED <<lg_request, lg_session, lg_usage, nonLogVars>>

\* lines 370-681: the restart of a crashed browser (lines 382-388), whose
\* fault goes to the handler, then the replanning cycle, whose planner
\* calls log their usage; the new plan goes to the loop, a failure, an
\* empty plan and an announced completion end the loop
LgReplan ==
    /\ lg_pc = "replan"
    /\ \/ /\ lg_pc' = "handler"
          /\ lg_calls' = lg_calls
       \/ \E c \in ReplanCalls :
             /\ lg_calls' = lg_calls \o Usage(c.asks)
             /\ lg_pc' \in (IF c.ok THEN {"loop", "summary"} ELSE {"summary"})
    /\ UNCHANGED <<lg_request, lg_session, lg_usage, nonLogVars>>

\* the pages a run can end on
LastUrls == {AboutBlank, "https://ya.ru"}

\* lines 683-721: the summary, asked of the planner unless there is no
\* result (a fault of its _ask_llm is caught inside and logs nothing),
\* FINAL_ANSWER, then the experience of line 718, whose KeyError at an
\* entry of the memory file takes the call to the handler of line 723
LgSummary ==
    /\ lg_pc = "summary"
    /\ \E answered \in BOOLEAN :
          lg_calls' = lg_calls \o Usage(IF answered THEN 1 ELSE 0)
                         \o <<LogCall(lg_session, "FINAL_ANSWER")>>
    /\ \E data \in StoredMemories, url \in LastUrls, saved \in BOOLEAN :
          lg_pc' = IF saved /\ add_experience(data, url, Task, <<>>).raised
                   THEN "handler" ELSE "idle"
    /\ UNCHANGED <<lg_request, lg_session, lg_usage, nonLogVars>>

\* lines 723-733
LgHandler ==
    /\ lg_pc = "handler"
    /\ lg_calls' = Append(lg_calls, LogCall(lg_session, "FINAL_ANSWER"))
    /\ lg_pc' = "idle"
    /\ UNCHANGED <<lg_request, lg_session, lg_usage, nonLogVars>>

NextLog ==
    \/ LgRequestStart
    \/ LgCreatePlan
    \/ LgLoop
    \/ LgStep
    \/ LgReplan
    \/ LgSummary
    \/ LgHandler

SpecLog == InitLog /\ [][NextLog]_vars

----------------------------------------------------------------------------
(* Properties *)


\* positions after the record of a step was appended and before the next
\* step is started
AfterStep == {"restart", "replan", "loop_head", "summary", "returned"}

\* C1: once stop is requested between two steps, no further record is
\* appended and no further step is started, and the poll at the top of the
\* loop ends the loop.
C1_StopBetweenSteps ==
    [][(stop_requested /\ pc \in AfterStep) =>
          /\ execution_history' = execution_history
          /\ step_count' = step_count
          /\ pc' # "execute"
          /\ (pc = "loop_head" => pc' = "summary")]_vars

\* a run of N >= 1 steps that the stop poll ended: N records, and the stop
\* notice as the only further result
C1_Witness ==
    /\ pc = "returned"
    /\ stop_requested
    /\ Len(execution_history) >= 1
    /\ Len(results) = Len(execution_history) + 1
    /\ Last(results) = StoppedByUser
    /\ \A i \in DOMAIN execution_history : execution_history[i].action # "finish"

NonFinishRecords(h) == Cardinality({i \in DOMAIN h : h[i].action # "finish"})

\* C2: a run executes at most max_steps (20) non-finish steps, and, every
\* external call returning, the run returns.
C2_BudgetAndTermination ==
    /\ [](step_count <= max_steps /\ NonFinishRecords(execution_history) <= max_steps)
    /\ <>(pc = "returned")

\* the budget was used up and the run returned
C2_Witness ==
    /\ pc = "returned"
    /\ step_count = max_steps
    /\ NonFinishRecords(execution_history) = max_steps

\* C3: process_request never raises; when it is over it has returned a text.
C3_NeverRaises ==
    /\ pc # "raised"
    /\ pc = "returned" => final_output.kind # "none"

\* a fault after an executed step came back as an error text
C3_Witness ==
    /\ pc = "returned"
    /\ final_output.kind = "error"
    /\ Len(execution_history) >= 1

\* C4: at the return, the outcome of every executed step is in the material
\* the returned output was produced from.
C4_NoOutcomeDiscarded ==
    pc = "returned" =>
        \A i \in DOMAIN execution_history :
            execution_history[i].action # "finish" =>
                \E j \in DOMAIN final_output.material :
                    Contains(final_output.material[j], execution_history[i].result)

C5Kinds == {"navigate", "click", "type", "scroll", "hover", "inspect", "wait",
            "extract", "search"}

\* C5: executing a non-finish head step of any of these kinds appends exactly
\* one record with the step's description and action, and replanning follows.
C5_OneRecordPerStep ==
    [][(pc = "execute" /\ pc' # "execute" /\ plan.steps[1].action \in C5Kinds) =>
          /\ Len(execution_history') = Len(execution_history) + 1
          /\ Last(execution_history').description = plan.steps[1].description
          /\ Last(execution_history').action = plan.steps[1].action
          /\ pc' \in {"restart", "replan"}]_vars

IdSet(ids) == {ids[i] : i \in DOMAIN ids}
Distinct(ids) == \A i, j \in DOMAIN ids : i # j => ids[i] # ids[j]
NoGap(ids) == \A k \in 1..(MaxStepId + 1) :
                 (\E a, b \in IdSet(ids) : a < k /\ k < b) => k \in IdSet(ids)

\* C6: Plan construction succeeds exactly when the step ids are pairwise
\* distinct and leave no gap between the smallest and the largest.
C6_AcceptedIffDistinctNoGap ==
    verdict \notin {"none", "pending"} =>
        (verdict = "ok" <=> (Distinct(cand_ids) /\ NoGap(cand_ids)))

\* the plan with ids [1,3] was rejected for its gap
C6_Witness == cand_ids = <<1, 3>> /\ verdict = "gap"

\* C7: in an accepted Plan the k-th step has id k.
C7_IdsStartAtOneInOrder ==
    verdict = "ok" => \A i \in DOMAIN cand_ids : cand_ids[i] = i

\* the latest update_plan request was made for the present history
ContextCurrent ==
    /\ Len(execution_history) >= 2
    /\ Len(update_context.history_str) = Len(execution_history)

LastTwoSame(h) ==
    /\ h[Len(h)].description = h[Len(h) - 1].description
    /\ h[Len(h)].result = h[Len(h) - 1].result

\* C8 (as stated): two most recent records with identical description and
\* outcome put the repeat warning into the replanning context.
C8_RepeatWarningAlways ==
    (ContextCurrent /\ LastTwoSame(execution_history)) =>
        update_context.cycle_warning = RepeatWarning

\* C8 (amended): two most recent records with identical description and
\* outcome put a cycle warning into the replanning context: the critical
\* warning when the outcome contains "Failed", the repeat warning otherwise.
C8_CycleWarningOnRepeat ==
    (ContextCurrent /\ LastTwoSame(execution_history)) =>
        update_context.cycle_warning =
            IF Contains(Last(execution_history).result, FailedWord)
            THEN CriticalWarning ELSE RepeatWarning

\* a request made after exactly two identical records carries the repeat warning
C8_Witness ==
    /\ ContextCurrent
    /\ Len(execution_history) = 2
    /\ LastTwoSame(execution_history)
    /\ update_context.cycle_warning = RepeatWarning

\* an outcome that reports a failure of the step
FailureOutcome(t) ==
    \/ Contains(t, FailedWord)
    \/ Contains(t, <<"Search", "failed", "completely:">>)
    \/ Contains(t, NoTargetFound)
    \/ Contains(t, <<"Error">>)

FailuresOf(d, h) ==
    Cardinality({i \in DOMAIN LastN(h, 3) :
                    /\ LastN(h, 3)[i].description = d
                    /\ FailureOutcome(LastN(h, 3)[i].result)})

\* C9: a description that failed in at least 2 of the last 3 records puts the
\* critical warning into the replanning context, whatever the failure outcome.
C9_CriticalOnTwoOfThree ==
    (ContextCurrent /\ \E d \in Descriptions : FailuresOf(d, execution_history) >= 2) =>
        update_context.cycle_warning = CriticalWarning

\* C10: three failures of one description as the last three records put the
\* critical warning into the replanning context.
C10_CriticalOnThreeFailures ==
    (/\ ContextCurrent
     /\ Len(execution_history) >= 3
     /\ FailuresOf(Last(execution_history).description, execution_history) = 3) =>
        update_context.cycle_warning = CriticalWarning

\* the last three records are failures of one and the same description
ThreeFailuresInARow(h) ==
    /\ Len(h) >= 3
    /\ FailuresOf(Last(h).description, h) = 3

\* C11: after three consecutive failed records with one description, the
\* next record the loop appends is never for that description again.
C11_NoFourthExecution ==
    [][(/\ ThreeFailuresInARow(execution_history)
        /\ Len(execution_history') = Len(execution_history) + 1) =>
          Last(execution_history').description # Last(execution_history).description]_vars

\* C12: execute_step never raises to its caller: whatever the step and
\* whichever driver or oracle call fails, it ends by returning an outcome text.
C12_ExecuteStepReturnsText ==
    es_pc = "done" => (~es_out.raised /\ es_out.text # <<>>)

\* a scroll whose driver call failed came back as an outcome text
C12_Witness ==
    /\ es_pc = "done"
    /\ es_step.action = "scroll"
    /\ es_out = Outcome(<<"Error", "executing", "step:">> \o TimeoutText)

\* C13: _generate_plan_with_retry makes at most 3 requests, returns only a
\* plan that passed validation, gives every retry request the error of the
\* attempt before it, and after 3 failed attempts raises PlannerError.
C13_RetryContract ==
    /\ Len(llm_requests) <= 3
    /\ gp_pc = "returned" => validate_steps(gp_result.ids) = "ok"
    /\ llm_requests # <<>> => llm_requests[1] = <<>>
    /\ \A i \in DOMAIN llm_requests :
          i > 1 => /\ Contains(llm_requests[i], attempt_errors[i - 1])
                   /\ \A j \in 1..(i - 2) :
                         attempt_errors[j] # attempt_errors[i - 1]
                            => ~Contains(llm_requests[i], attempt_errors[j])
    /\ gp_pc = "raised" =>
          (gp_result.raised = "PlannerError" /\ Len(attempt_errors) = 3)

\* three attempts failed, the first for a reply without a JSON object, and
\* PlannerError was raised with the last error in its message
C13_Witness ==
    /\ gp_pc = "raised"
    /\ gp_result.raised = "PlannerError"
    /\ Len(llm_requests) = 3
    /\ attempt_errors[1] = <<"LLM", "returned", "no", "JSON", "object">>
    /\ attempt_errors[3] = <<"JSONDecodeError:", "Expecting", "value">>
    /\ Contains(gp_result.message, attempt_errors[3])

\* C14: once the planner has given up (PlannerError), at the initial plan
\* or while replanning, the run is aborted: from the failing request on no
\* step is executed and no record added, the stored experience stays what it
\* was, and the outcome the run returns is the error report.
C14_PlannerFailureAborts ==
    [][planner_error' =>
          /\ pc' \in {"summary", "returned", "raised"}
          /\ execution_history' = execution_history
          /\ results' = results
          /\ memory_data' = memory_data
          /\ pc' = "returned" => final_output'.kind = "error"]_vars

\* C15: a step outcome reporting that the page, context or browser was
\* closed makes the loop restart the browser; the records gathered so far
\* are kept and the run goes on, with a started browser, to state capture
\* and replanning instead of ending.
C15_RestartAndContinue ==
    [][/\ (/\ pc = "execute"
           /\ Len(execution_history') = Len(execution_history) + 1
           /\ Contains(Last(execution_history').result, BrowserClosedText))
          => pc' = "restart"
       /\ (pc = "restart" /\ pc' # "restart")
          => /\ execution_history' = execution_history
             /\ results' = results
             /\ pc' = "replan"
             /\ is_browser_started']_vars

Enqueued == {enqueued[i] : i \in DOMAIN enqueued}
Served == {served[i] : i \in DOMAIN served}

\* the worker will take nothing more: it has ended, or waits on an empty queue
WorkerQuiet == WorkerEnded \/ (worker_pc = "get" /\ request_queue = <<>>)

\* C16: process_request runs only in the worker and for one request at a
\* time, requests are served in the order they were enqueued, no request
\* gets more than one response or a response on another request's queue,
\* and once the worker has nothing left to take every enqueued request has
\* its response.
C16_SerializedFifoOneResponse ==
    /\ pc # "off" => (worker_pc = "busy" /\ current # 0)
    /\ Len(served) <= Len(enqueued)
    /\ served = SubSeq(enqueued, 1, Len(served))
    /\ \A c \in Clients :
          /\ Len(result_queues[c]) <= 1
          /\ Len(result_queues[c]) = 1 => c \in Served
    /\ WorkerQuiet => \A c \in Enqueued : Len(result_queues[c]) = 1

\* C18: a stop request issued while the worker holds a request makes that
\* request's loop end at its next poll, and the poll of a request ends the
\* loop only for a stop request issued while the worker held that request.
C18_StopReachesCurrentRequestOnly ==
    [][/\ (/\ pc = "loop_head" /\ pc' # "loop_head"
           /\ current \in stopped_during)
          => pc' = "summary"
       /\ (/\ pc = "loop_head" /\ pc' = "summary"
           /\ LoopDecision(plan, step_count, stop_requested) = "stopped")
          => current \in stopped_during]_vars

\* C17: once stop is requested, the loop starts no further planner update
\* (with its critique and re-requests): replanning begins only with the
\* flag unset.
C17_NoLongCallAfterStop ==
    [][(pc = "replan" /\ pc' # "replan") => ~stop_requested]_vars

\* C19: in every snapshot a scan returns, the k-th element has the id Ek, so
\* the ids are pairwise distinct and are E1..En in scan order, also when
\* the result was cut to max_elements.
C19_IdsContiguousInScanOrder ==
    sc_pc \in {"scanned", "refreshed"} =>
        \A k \in DOMAIN snapshot.elements :
            snapshot.elements[k].id = ElementId(k)

\* a scan with max_elements = 1 that skipped a hidden node and reported the
\* node after it as E1
C19_Witness ==
    /\ sc_pc = "scanned"
    /\ sc_max_elements = 1
    /\ Len(sc_nodes) = 2
    /\ sc_nodes[1].shown = "css_hidden"
    /\ Len(snapshot.elements) = 1
    /\ Len(MainScan(sc_nodes, sc_viewport)) = 1

\* the smallest side a scan keeps
MinSizeOf(p) == IF p = "refreshed" THEN MinSizeRefresh ELSE MinSizeMain

\* C20: every element's bbox lies inside the viewport and both its sides
\* are at least the minimum size of the scan (8 px in the main scan).
C20_BboxInsideViewport ==
    sc_pc \in {"scanned", "refreshed"} =>
        \A k \in DOMAIN snapshot.elements :
            LET b == snapshot.elements[k].bbox
            IN /\ 0 <= b.x /\ 0 <= b.y
               /\ b.x + b.w <= snapshot.viewport.w
               /\ b.y + b.h <= snapshot.viewport.h
               /\ b.w >= MinSizeOf(sc_pc) /\ b.h >= MinSizeOf(sc_pc)

\* a node reaching beyond both sides of the viewport was cut to it
C20_Witness ==
    /\ sc_pc = "scanned"
    /\ Len(sc_nodes) = 1
    /\ sc_nodes[1].x < 0
    /\ sc_nodes[1].x + sc_nodes[1].width > sc_viewport.w
    /\ Len(snapshot.elements) = 1
    /\ snapshot.elements[1].bbox.x = 0
    /\ snapshot.elements[1].bbox.w = sc_viewport.w

Boxes(snap) == [k \in DOMAIN snap.elements |-> snap.elements[k].bbox]

\* C21: two scans of one kind with no change of the DOM between them give
\* snapshots with the same number of elements and the same bbox at every
\* position: the tags the first scan wrote do not change what the second
\* selects.
C21_RescanSameBoxes ==
    (sc_prev.kind # "none" /\ sc_prev.kind = sc_pc) =>
        Boxes(snapshot) = Boxes(sc_prev.snapshot)

\* a page with tagged nodes was scanned a second time
C21_Witness ==
    /\ sc_prev.kind = "scanned"
    /\ sc_pc = "scanned"
    /\ ~sc_changed
    /\ Len(sc_prev.snapshot.elements) >= 2
    /\ Len(snapshot.elements) >= 2

\* the elements the script of the latest scan pushed, with their nodes
LatestOut ==
    IF sc_pc = "scanned" THEN MainScan(sc_nodes, sc_viewport)
    ELSE RefreshScan(sc_nodes, sc_viewport, sc_max_elements)

\* C25: after a scan, whatever scans and DOM changes came before, every id
\* of the snapshot is the tag of exactly one node of the document, the node
\* the scan recorded under it, and looking the id up gives that node.
C25_TagsMatchLatestSnapshot ==
    (sc_pc \in {"scanned", "refreshed"} /\ ~sc_changed) =>
        \A k \in DOMAIN snapshot.elements :
            /\ {i \in DOMAIN sc_nodes :
                    sc_nodes[i].shown # "absent"
                    /\ sc_nodes[i].tag = snapshot.elements[k].id}
                  = {LatestOut[k].node}
            /\ Locate(sc_nodes, snapshot.elements[k].id) = LatestOut[k].node

\* an outcome that reports a failure of any kind, a stop included
AnyFailure(t) == FailureOutcome(t) \/ Contains(t, StoppedByUser)

\* C22: an experience is persisted at the end of a run only if there is a
\* record and the last record is not a failure of any kind; it is stored
\* under the domain of the last record's URL and the task.
C22_ExperienceOnlyOnSuccess ==
    (pc = "returned" /\ memory_data \notin StoredMemories) =>
        /\ execution_history # <<>>
        /\ ~AnyFailure(Last(execution_history).result)
        /\ Last(memory_data).domain = get_domain(Last(execution_history).url)
        /\ Last(memory_data).task = Task

\* C30: the experience store is append-only: no step of the system changes
\* or removes an entry that is stored.
C30_StoreAppendOnly ==
    [][/\ Len(memory_data') >= Len(memory_data)
       /\ \A i \in DOMAIN memory_data : memory_data'[i] = memory_data[i]]_vars

\* C23: Step validation accepts every action the control loop handles,
\* ask_user included.
C23_LoopActionsAccepted ==
    (step_verdict \notin {"none", "pending"} /\ cand_action \in LoopActions) =>
        step_verdict = "ok"

\* the order in which execute_step is to try the ways of finding a target
Rank(w) == CASE w = "id" -> 1 [] w = "text" -> 2 [] OTHER -> 3

\* the outcome says that the target of the click was not found
ResolutionFailure(t) == Contains(t, <<"Failed", "to", "click:">>)

\* C24: a click step tries the explicit id, then the quoted text, then the
\* visual oracle, each only after the ones before it, and reports that the
\* target was not found only after the oracle, when there is one, was tried.
C24_FallbackChain ==
    es_step.action = "click" =>
        /\ \A i, j \in DOMAIN es_tried :
              i < j => Rank(es_tried[i]) < Rank(es_tried[j])
        /\ (es_pc = "done" /\ ResolutionFailure(es_out.text) /\ es_vlm_client)
              => \E i \in DOMAIN es_tried : es_tried[i] = "vlm"

\* C26: the pre-action guards run before the action of every step the loop
\* executes, whatever its kind: with every record a step appends, one more
\* step has had its guards.
C26_GuardsBeforeEveryStep ==
    [][(pc = "execute" /\ Len(execution_history') = Len(execution_history) + 1)
          => guarded_steps' = guarded_steps + 1]_vars

\* a single extract step that announces completion (lines 649-653)
AnnouncesCompletion(p) ==
    /\ Len(p.steps) = 1
    /\ p.steps[1].action = "extract"
    /\ MentionsComplete(p.steps[1].description)

SingleTerminal(p) ==
    \/ Len(p.steps) = 1 /\ p.steps[1].action = "finish"
    \/ AnnouncesCompletion(p)

\* C27 (as stated): after a replanning cycle the loop executes another step
\* exactly when the new Plan is non-empty, is not a single terminal step and
\* fewer than max_steps steps were executed; otherwise the run ends.
C27_ContinueIffPlanAndBudget ==
    [][/\ (pc = "replan" /\ pc' = "summary" /\ ~planner_failed')
          => ~(/\ new_plan'.steps # <<>>
               /\ ~SingleTerminal(new_plan')
               /\ step_count < max_steps)
       /\ (pc = "loop_head" /\ pc' # "loop_head" /\ execution_history # <<>>)
          => /\ pc' \in {"execute", "summary"}
             /\ pc' = "execute" <=> (/\ plan.steps # <<>>
                                     /\ ~SingleTerminal(plan)
                                     /\ step_count < max_steps)]_vars

\* C27 (amended): after a replanning cycle that gave a new Plan the loop
\* executes another step exactly when stop was not requested, the new Plan
\* is non-empty, its head is not a finish step, it is not a single extract
\* step announcing completion, and fewer than max_steps steps were executed;
\* otherwise the run ends without executing a step of the new Plan.
C27_ContinueUnlessStoppedOrFinishHead ==
    [][/\ (pc = "replan" /\ pc' # "replan" /\ ~planner_failed')
          => /\ pc' \in {"loop_head", "summary"}
             /\ pc' = "summary" <=> (\/ new_plan'.steps = <<>>
                                     \/ AnnouncesCompletion(new_plan'))
             /\ pc' = "loop_head" => plan' = new_plan'
       /\ (pc = "loop_head" /\ pc' # "loop_head" /\ execution_history # <<>>)
          => /\ pc' \in {"execute", "summary"}
             /\ pc' = "execute" <=> (/\ ~stop_requested
                                     /\ plan.steps # <<>>
                                     /\ plan.steps[1].action # "finish"
                                     /\ ~AnnouncesCompletion(plan)
                                     /\ step_count < max_steps)]_vars

\* after a replanning cycle the loop began the head step of a two-step plan
C27_Witness ==
    /\ pc = "execute"
    /\ execution_history # <<>>
    /\ plan = new_plan
    /\ Len(plan.steps) = 2

\* C28: the loop executes only the head step of the active Plan and leaves
\* the Plan as it is; the Plan changes only by being replaced with a Plan
\* the planner returned, and a replanning request for the latest record
\* lies between that record and the start of the next step.
C28_HeadOnlyWholesaleReplace ==
    [][/\ (pc = "execute" /\ Len(execution_history') = Len(execution_history) + 1)
          => /\ Last(execution_history').description = plan.steps[1].description
             /\ Last(execution_history').action = plan.steps[1].action
             /\ plan' = plan
       /\ plan' # plan
          => \/ pc \in {"create_plan", "retry_plan"}
             \/ pc = "replan" /\ plan' = new_plan'
       /\ (pc # "execute" /\ pc' = "execute")
          => /\ pc = "loop_head"
             /\ execution_history # <<>> =>
                   Len(update_context.history_str) = Len(execution_history)]_vars

\* a third step begins, two records and two replanning cycles behind it
C28_Witness ==
    /\ pc = "execute"
    /\ Len(execution_history) = 2
    /\ Len(update_context.history_str) = 2
    /\ plan = new_plan

\* C29: the record list of a run is append-only, what is sent to the
\* planner does not alter a stored record, and every executed step appends
\* exactly one record.
C29_HistoryAppendOnly ==
    [][/\ Len(execution_history') \in {Len(execution_history),
                                        Len(execution_history) + 1}
       /\ SubSeq(execution_history', 1, Len(execution_history)) = execution_history
       /\ (pc = "execute" /\ pc' # "execute")
          => Len(execution_history') = Len(execution_history) + 1]_vars

\* update_plan requests of the cycle that carry the captured screenshot
ImageRequests ==
    {i \in DOMAIN rp_calls : /\ rp_calls[i].call = "update_plan"
                             /\ rp_calls[i].image = PlanningScreenshot}

\* the cycle is past the needs_vision test of line 577
PastVision ==
    \/ rp_pc \in {"critique", "decide"}
    \/ rp_pc = "done" /\ rp_result \in {"break", "assign"}

\* C31: in one replanning cycle at most one screenshot is captured and at
\* most one request carries it; past the vision test, the screenshot was
\* captured and the plan requested again with it, as the second request of
\* the cycle, exactly when the first answer set needs_vision, whatever the
\* second answer sets.
C31_VisionEscalationAtMostOnce ==
    /\ Len(rp_shots) <= 1
    /\ Cardinality(ImageRequests) <= 1
    /\ PastVision =>
          (rp_calls[1].reply.plan.needs_vision
             <=> /\ rp_shots = <<PlanningScreenshot>>
                 /\ ImageRequests = {2}
                 /\ ~rp_calls[2].critique)

\* a finished cycle whose answer to the request with the image set
\* needs_vision again
C31_Witness ==
    /\ rp_pc = "done"
    /\ rp_result \in {"break", "assign"}
    /\ Len(rp_shots) = 1
    /\ rp_calls[2].reply.ok
    /\ rp_calls[2].reply.plan.needs_vision

\* a plan with steps that is not a single extract step
NonTrivial(p) ==
    /\ Len(p.steps) >= 1
    /\ Len(p.steps) = 1 => p.steps[1].action # "extract"

CritiqueCalls == {i \in DOMAIN rp_calls : rp_calls[i].call = "critique_plan"}

\* C32: in one replanning cycle critique_plan is called at most once, on the
\* latest answer, which is non-empty and not a single extract step; a verdict
\* of invalid is followed by exactly one update_plan request, made with the
\* critique in its context, after which no planner call follows; a request
\* with a critique in its context is made only right after such a verdict.
C32_OneCritiquePass ==
    /\ Cardinality(CritiqueCalls) <= 1
    /\ \A i \in CritiqueCalls :
          /\ NonTrivial(rp_calls[i].reply.plan)
          /\ i > 1
          /\ rp_calls[i - 1].reply = PlanReply(rp_calls[i].reply.plan)
          /\ rp_calls[i].reply.ok => Len(rp_calls) = i
          /\ ~rp_calls[i].reply.ok
                => /\ Len(rp_calls) = i + 1
                   /\ rp_calls[i + 1].call = "update_plan"
                   /\ rp_calls[i + 1].critique
    /\ \A i \in DOMAIN rp_calls :
          rp_calls[i].critique
             => /\ i > 1
                /\ rp_calls[i - 1].call = "critique_plan"
                /\ ~rp_calls[i - 1].reply.ok
    /\ rp_context_critique
          <=> \E i \in CritiqueCalls : ~rp_calls[i].reply.ok

\* a finished cycle in which the plan requested after the critique would
\* itself qualify for a critique
C32_Witness ==
    /\ rp_pc = "done"
    /\ \E i \in CritiqueCalls : ~rp_calls[i].reply.ok
    /\ rp_calls[Len(rp_calls)].reply.ok
    /\ NonTrivial(rp_calls[Len(rp_calls)].reply.plan)

\* C33: a request made after the critique of a plan that set needs_vision
\* carries a screenshot captured in this cycle, and the planner can answer it.
C33_CritiqueRequestCarriesScreenshot ==
    \A i \in DOMAIN rp_calls :
        (/\ rp_calls[i].call = "update_plan"
         /\ rp_calls[i].critique
         /\ rp_calls[i - 1].reply.plan.needs_vision)
           => /\ \E k \in DOMAIN rp_shots : rp_shots[k] = rp_calls[i].image
              /\ UpdatePlanRepliesOver(CyclePlans, rp_calls[i].image) # {PlanFailed}

\* an initial plan with nothing to do: no step, or one step that is a finish
\* or an extract
EmptyOrTerminalOnly(p) ==
    \/ Len(p.steps) = 0
    \/ Len(p.steps) = 1 /\ p.steps[1].action \in {"finish", "extract"}

\* C34: the first create_plan request is made once, on entry; when it is
\* answered, the second request follows exactly when the answer is empty or a
\* single terminal step; the answer to the second request becomes the plan
\* and the run goes on to start the browser, whatever that answer is; no
\* request for an initial plan is made later in the run.
C34_InitialPlanAtMostTwice ==
    [][/\ (pc = "create_plan" /\ pc' # "create_plan" /\ ~planner_failed')
          => /\ pc' \in {"retry_plan", "start_browser"}
             /\ pc' = "retry_plan" <=> EmptyOrTerminalOnly(plan')
       /\ (pc = "retry_plan" /\ pc' # "retry_plan" /\ ~planner_failed')
          => pc' = "start_browser" /\ plan' \in InitialPlans
       /\ (pc' = "create_plan" /\ pc # "create_plan") => pc = "idle"
       /\ (pc' = "retry_plan" /\ pc # "retry_plan") => pc = "create_plan"]_vars

\* the browser is about to start with a plan that is empty or terminal:
\* the answer to the second request, used as it is
C34_Witness ==
    /\ pc = "start_browser"
    /\ EmptyOrTerminalOnly(plan)

\* the page without the nodes at which the inspection of the scan raises
WithoutFaulty(min_size, aria_checked) ==
    [i \in DOMAIN sc_nodes |->
        IF i \in sc_faulty /\ Throws(sc_nodes[i], sc_viewport, min_size,
                                     aria_checked)
        THEN [sc_nodes[i] EXCEPT !.shown = "absent"]
        ELSE sc_nodes[i]]

\* C35: a scan of a page on which the inspection of some nodes raises does
\* not fail: it returns the Snapshot that the same scan gives for the page
\* without those nodes.
C35_FaultSkipsOneCandidate ==
    sc_pc # "ready"
       => /\ sc_pc # "raised"
          /\ sc_pc = "scanned"
                => snapshot = screenshot_with_bboxes(
                                  WithoutFaulty(MinSizeMain, TRUE), sc_viewport,
                                  sc_max_elements, sc_image_path, sc_dpr)
          /\ sc_pc = "refreshed"
                => snapshot = refresh_bbox_ids(
                                  WithoutFaulty(MinSizeRefresh, FALSE),
                                  sc_viewport, sc_max_elements)

Range(seq) == {seq[i] : i \in DOMAIN seq}

\* the forced clicks of the step
ForcedClicks == {i \in DOMAIN es_events : es_events[i].kind = "forced"}

\* an outcome text that reports a click
ReportsClick(t) ==
    Contains(t, <<"Clicked">>) \/ Contains(t, <<"Force", "clicked">>)

\* every forced click comes directly after the native click on the same
\* element, found in the same way, and that click raised
ForcedAfterNative ==
    \A i \in ForcedClicks :
        /\ i > 1
        /\ es_events[i - 1].kind = "native"
        /\ es_events[i - 1].res = "raised"
        /\ es_events[i - 1].via = es_events[i].via
        /\ es_events[i - 1].node = es_events[i].node

\* C36 as stated: a forced click follows the native click on the same
\* element, which raised; each element is forced at most once; a step in
\* which a forced click failed does not end with an outcome that reports a
\* click.
C36_ForcedClickFailureIsFailure ==
    /\ ForcedAfterNative
    /\ \A i, j \in ForcedClicks :
          es_events[i].node = es_events[j].node => i = j
    /\ (es_pc = "done" /\ \E i \in ForcedClicks : es_events[i].res = "raised")
          => ~ReportsClick(es_out.text)

\* C36 amended: a forced click follows the native click on the same
\* element, which raised; the element found by the id is forced at most
\* once and so is the element found by the quoted text, the same element
\* being forced a second time only when the forced click by id had failed
\* and the text leads to that element again; when the forced click on the
\* element found by its text failed the step does not report a click; when
\* the forced click on the element found by its id failed the step went on
\* to the other ways of finding the target, and it reports a click only
\* when its last click, on an element found in another way, succeeded.
C36_ForcedClickFailsOrFallsBack ==
    /\ ForcedAfterNative
    /\ \A i, j \in ForcedClicks :
          /\ es_events[i].via \in {"id", "text"}
          /\ es_events[i].via = es_events[j].via => i = j
          /\ (i < j /\ es_events[i].node = es_events[j].node)
                => /\ es_events[i] = On(<<Ev("forced", "id", "raised")>>, IdNode)[1]
                   /\ es_events[j].via = "text"
    /\ (es_pc = "done"
           /\ \E i \in ForcedClicks :
                 es_events[i].via = "text" /\ es_events[i].res = "raised")
          => ~ReportsClick(es_out.text)
    /\ (\E i \in ForcedClicks :
           es_events[i].via = "id" /\ es_events[i].res = "raised")
          => /\ es_pc \in {"main", "vlm", "vlm_query", "done"}
             /\ (es_pc = "done" /\ ReportsClick(es_out.text))
                   => /\ Last(es_events).via # "id"
                      /\ Last(es_events).kind \in {"native", "forced", "js"}
                      /\ Last(es_events).res = "ok"

\* a step whose forced click on the element found by id failed, which found
\* the same element again by the quoted text, forced the click on it a
\* second time and ended reporting that click
C36_Witness ==
    /\ es_pc = "done"
    /\ \E i, j \in ForcedClicks :
          /\ i < j
          /\ es_events[i].node = es_events[j].node
          /\ es_events[i].res = "raised"
          /\ es_events[j].res = "ok"
    /\ ReportsClick(es_out.text)

\* the queries of the visual oracle and the scrolls of the step
OracleQueries == {i \in DOMAIN es_events : es_events[i].kind = "query"}
LastQuery == CHOOSE i \in OracleQueries : \A j \in OracleQueries : j <= i
Scrolls == {i \in DOMAIN es_events : es_events[i].kind = "scroll"}

\* C37 as stated: a click step queries the oracle at most twice; a second
\* query is made only after the first was answered not-found and the page
\* was scrolled once; after a second not-found answer the page is not
\* scrolled again, and the step ends with a failure outcome.
C37_SecondQueryOnlyAfterNotFound ==
    es_step.action = "click"
       => /\ Cardinality(OracleQueries) <= 2
          /\ \A i, j \in OracleQueries :
                i < j => /\ es_events[i].res = "not_found"
                         /\ Cardinality({k \in Scrolls : k < j}) = 1
          /\ Cardinality(Scrolls) <= 1
          /\ (es_pc = "done" /\ Cardinality(OracleQueries) = 2
                 /\ es_events[LastQuery].res = "not_found")
                => ~ReportsClick(es_out.text)

\* C37 amended: a click step queries the oracle at most twice; a second
\* query is made only when no click was made after the first; the page is
\* scrolled exactly after each not-found answer, the second included; after
\* two passes without a click the step ends with the failure outcome.
C37_AtMostTwoQueries ==
    es_step.action = "click"
       => /\ Cardinality(OracleQueries) <= 2
          /\ \A i, j \in OracleQueries :
                i < j => \A k \in 1..j :
                            ~(es_events[k].via = "vlm" /\ es_events[k].res = "ok"
                              /\ es_events[k].kind \in {"native", "js"})
          /\ \A i \in OracleQueries :
                es_events[i].res = "not_found"
                   <=> (i + 1) \in Scrolls
          /\ \A k \in Scrolls : (k - 1) \in OracleQueries
          /\ (es_pc = "done" /\ Cardinality(OracleQueries) = 2
                 /\ ~ReportsClick(es_out.text))
                => es_out.text = <<"Failed", "to", "click:", "VLM", "could", "not",
                                   "find", "target", "after", "scrolling">>

\* a click step that ended after two not-found answers, each followed by a
\* scroll
C37_Witness ==
    /\ es_pc = "done"
    /\ es_step.action = "click"
    /\ Cardinality(OracleQueries) = 2
    /\ \A i \in OracleQueries : es_events[i].res = "not_found"
    /\ Cardinality(Scrolls) = 2

\* the API call failed: no credentials, no answer, an error status, an
\* answer that cannot be decoded or parsed, or an error response
ApiCallFailed(env) ==
    \/ ~env.credentials
    \/ env.transport # "ok"
    \/ env.body \in {"not_json", "no_raw_data", "bad_padding", "not_alphabet",
                     "unknown_encoding", "api_error", "unparsable"}

\* C38: a search step whose API call failed does not end in an exception
\* but with the manual search; a step ends with the manual search exactly
\* when the call failed, and with the API summary only when it succeeded.
C38_FallbackWheneverApiFails ==
    /\ sr_pc # "raised"
    /\ sr_pc = "done"
          => /\ sr_fallback <=> ApiCallFailed(sr_env)
             /\ Contains(sr_result, <<"Results", "for", Quoted(D1), "(via">>)
                   => ~ApiCallFailed(sr_env)

\* the positions in seq of the entries of session k with the given type
EntriesOf(seq, k, type) ==
    {i \in DOMAIN seq : seq[i].session = k /\ seq[i].type = type}

\* request k has returned
Returned(k) == k < lg_request \/ (k = lg_request /\ lg_pc = "idle")

\* in seq every request has its own session with one REQUEST_START, at
\* most one FINAL_ANSWER, after it, and one once the request has returned
OneStartOneFinal(seq) ==
    \A k \in 1..lg_request :
        /\ Cardinality(EntriesOf(seq, k, "REQUEST_START")) = 1
        /\ Cardinality(EntriesOf(seq, k, "FINAL_ANSWER")) <= 1
        /\ Returned(k) => Cardinality(EntriesOf(seq, k, "FINAL_ANSWER")) = 1
        /\ \A i \in EntriesOf(seq, k, "REQUEST_START") :
           \A j \in DOMAIN seq : seq[j].session = k => i <= j
        /\ \A i \in EntriesOf(seq, k, "FINAL_ANSWER") :
           \A j \in DOMAIN seq : seq[j].session = k => j <= i

\* C39: in the calls of log_action every request has its own session with
\* one REQUEST_START, made first, and, once it has returned, exactly one
\* FINAL_ANSWER, made last; the sessions follow the order of the requests.
C39_OneStartOneFinalCall ==
    /\ OneStartOneFinal(lg_calls)
    /\ \A i, j \in DOMAIN lg_calls :
          i < j => lg_calls[i].session <= lg_calls[j].session

\* the callers that wait in result_queue.get() of process_query
Waiting == {c \in Enqueued : result_queues[c] = <<>>}

\* C40: no caller blocks for ever on its result queue: the worker thread
\* never ends while a caller whose request it was given still waits for
\* the response.
C40_NoCallerBlocksForever == WorkerEnded => Waiting = {}

====
